---- MODULE Spec2Model ----
(***************************************************************************)
(* PetStory: the order pipeline (app/worker.py), the upload endpoint that  *)
(* queues it (app/main.py), the order-directory allocator                  *)
(* (app/utils/slug.py) and the services of app/services.                   *)
(*                                                                         *)
(* Spec          one call of process_pet_story with a list of photo paths  *)
(* UploadSpec    the /api/upload endpoint, its background tasks and clock  *)
(* MailSpec      one call of EmailService.send_pet_story_email             *)
(* KitSpec       one call of PDFService.create_digital_kit                 *)
(* GenerateSpec  one call of GeminiGenerator.generate                      *)
(* WebSpec       one call of WebGenerator.generate_tribute_page            *)
(* SlugSpec      email_to_slug and name_to_slug applied to a text twice    *)
(***************************************************************************)
EXTENDS Integers, Sequences, FiniteSets, TLC

\* ------------------------------------------------------------------ bounds
\* Largest number of photo paths handed to process_pet_story.
MaxPhotos == 3
\* Longest duration of one external call, in clock ticks.
MaxCallTicks == 2
\* Last clock tick at which the upload endpoint is observed.
MaxClock == 3
\* Number of upload requests observed.
MaxRequests == 2
\* The longest generated_art_paths given to create_digital_kit; the image files
\* it can name are 1..MaxArts.
MaxArts == 2
\* The longest original_image_paths given to create_digital_kit.
MaxOriginals == 1
\* The most parts in the first candidate of a response of the model.
MaxParts == 2
\* The longest text given to the slug functions, apart from the long ones.
MaxSlugInput == 3
\* Calls of get_unique_order_dir made one after another.
MaxDirCalls == 2
\* The longest text given to clean_text.
MaxCleanInput == 3

\* ------------------------------------------------------- program constants
\* Clock ticks per second: strftime("%Y%m%d_%H%M%S") drops what is below 1 s.
TicksPerSecond == 2
\* time.sleep(2) between two generations.
SleepSeconds == 2
\* "Máximo de 10 fotos permitidas".
MaxFotos == 10
\* name_to_slug cuts the slug at 50 characters.
SlugMaxLen == 50
\* PDFService.A4_WIDTH_MM and A4_HEIGHT_MM
A4_WIDTH_MM == 210
A4_HEIGHT_MM == 297

VARIABLES
    \* ---- process_pet_story (one order)
    pc,             \* position in process_pet_story
    photo_paths,    \* the photo_paths argument: a sequence of photo ids
    idx,            \* the loop index of enumerate(photo_paths, 1)
    generated_arts, \* the list generated_arts: paths of the arts written
    email_enabled,  \* EmailService.enabled of the service built by the order
    pdf_path,       \* the local pdf_path
    html_path,      \* the local html_path
    now,            \* the wall clock, in ticks
    disk,           \* art files of the order directory: path -> photo it shows
    trace,          \* the calls made so far, in order
    kit_call,       \* arguments of each create_digital_kit call
    page_call,      \* art_image_path of each generate_tribute_page call
    mail_call,      \* one entry per send_pet_story_email call
    results,        \* the records returned to the caller
    propagated,     \* an exception left process_pet_story
    \* ---- upload endpoint
    requests,       \* number of upload requests handled
    responses,      \* the HTTP status of each request, in order
    orders,         \* accepted orders, in order of acceptance
    dirs,           \* directories created under TEMP_DIR
    photo_files,    \* photo files written: <<directory, file name>>
    tasks,          \* background tasks queued and not yet run
    task_log,       \* outcome of each background task that ran
    payment_service, \* the global payment_service is set (token configured)
    payments,       \* payment_storage._payments: payment id -> what was saved
    provider,       \* what the payment provider answers for each payment id
    \* ---- EmailService.send_pet_story_email (one call)
    m_pc,           \* position in send_pet_story_email
    m_user,         \* self.smtp_user
    m_password,     \* self.smtp_password
    m_enabled,      \* self.enabled
    m_to,           \* the to_email argument
    m_smtp,         \* the SMTP commands issued so far, in order
    m_refused,      \* the dictionary returned by send_message: refused addresses
    m_error,        \* the exception caught by the call, "" when none
    m_returned,     \* the values returned to the caller
    m_raised,       \* an exception left send_pet_story_email
    \* ---- PDFService.create_digital_kit (one call)
    k_pc,           \* position in create_digital_kit
    k_args,         \* the arguments of the call
    k_files,        \* the image files: file -> "ok", "corrupt" or "missing"
    k_idx,          \* idx of "for idx, art_path in enumerate(..., 1)"
    k_pages,        \* the pages added to the document so far, in order
    k_out,          \* the files of output_dir
    k_dir,          \* output_dir exists
    k_returned,     \* the paths returned to the caller
    k_error,        \* the exception raised to the caller, "" when none
    k_sizes,        \* the size in pixels of the image of each file
    k_layout,       \* what the texts decide: a date line, where a story part ends
    k_placed,       \* the images put on the pages: position and size in mm
    \* ---- GeminiGenerator.generate (one call)
    g_pc,           \* position in generate
    g_input,        \* image_bytes opens as an image: "ok" or "bad"
    g_api,          \* what generate_content does: "ok" or "error"
    g_response,     \* the response of generate_content
    g_part,         \* position of "for part in ...content.parts"
    g_image,        \* generated_image, "" for None
    g_from,         \* the part and the field generated_image was taken from
    g_calls,        \* number of generate_content calls made
    g_returned,     \* the values returned to the caller
    g_error,        \* the exception raised to the caller, "" when none
    \* ---- WebGenerator.generate_tribute_page (one call)
    w_pc,           \* position in generate_tribute_page
    w_args,         \* pet_name, pet_date, pet_story and art_image_path
    w_image,        \* the bytes of the file art_image_path, <<>> if unreadable
    w_template,     \* the text of the template file
    w_template_ok,  \* the template file can be read
    w_uri,          \* image_data_uri
    w_returned,     \* the pages returned to the caller
    w_error,        \* the exception raised to the caller, "" when none
    \* ---- email_to_slug and name_to_slug
    s_input,        \* the text given to the slug functions
    s_email,        \* email_to_slug applied to it once, twice, ...
    s_name,         \* name_to_slug applied to it once, twice, ...
    \* ---- get_unique_order_dir (calls made one after another)
    d_calls,         \* the calls made so far: arguments and the path returned
    \* ---- PDFService.clean_text (one call)
    c_input,        \* the text given to clean_text, as code points
    c_returned      \* the values returned to the caller

worker_vars == <<pc, photo_paths, idx, generated_arts, email_enabled, pdf_path,
                 html_path, disk, trace, kit_call, page_call, mail_call,
                 results, propagated>>
upload_vars == <<requests, responses, orders, dirs, photo_files, tasks, task_log,
                 payment_service, payments, provider>>
mail_vars == <<m_pc, m_user, m_password, m_enabled, m_to, m_smtp,
               m_refused, m_error, m_returned, m_raised>>
kit_vars == <<k_pc, k_args, k_files, k_idx, k_pages, k_out, k_dir, k_returned,
              k_error, k_sizes, k_layout, k_placed>>
gen_vars == <<g_pc, g_input, g_api, g_response, g_part, g_image, g_from, g_calls,
              g_returned, g_error>>
web_vars == <<w_pc, w_args, w_image, w_template, w_template_ok, w_uri, w_returned,
              w_error>>
slug_vars == <<s_input, s_email, s_name>>
dir_vars == <<d_calls>>
clean_vars == <<c_input, c_returned>>
lib_vars == <<mail_vars, kit_vars, gen_vars, web_vars, slug_vars,
              dir_vars,
              clean_vars>>
\* What a call of one service leaves alone: the state of everything else.
not_mail == <<worker_vars, now, upload_vars, kit_vars, gen_vars, web_vars, slug_vars,
              dir_vars,
              clean_vars>>
not_kit == <<worker_vars, now, upload_vars, mail_vars, gen_vars, web_vars, slug_vars,
             dir_vars,
             clean_vars>>
not_gen == <<worker_vars, now, upload_vars, mail_vars, kit_vars, web_vars, slug_vars,
             dir_vars,
             clean_vars>>
not_web == <<worker_vars, now, upload_vars, mail_vars, kit_vars, gen_vars,
            slug_vars,
             dir_vars,
             clean_vars>>
not_slug == <<worker_vars, now, upload_vars, mail_vars, kit_vars, gen_vars,
             web_vars,
              dir_vars,
              clean_vars>>
not_dir == <<worker_vars, now, upload_vars, mail_vars, kit_vars, gen_vars,
              web_vars, slug_vars,
             clean_vars>>
not_clean == <<worker_vars, now, upload_vars, mail_vars, kit_vars, gen_vars,
                web_vars, dir_vars, slug_vars>>
vars == <<worker_vars, now, upload_vars, lib_vars>>

\* ------------------------------------------------------------ idle services
\* The state of a service of which no call is in progress.
MailIdle ==
    /\ m_pc = "idle"
    /\ m_user = ""
    /\ m_password = ""
    /\ m_enabled = FALSE
    /\ m_to = <<>>
    /\ m_smtp = <<>>
    /\ m_refused = {}
    /\ m_error = ""
    /\ m_returned = <<>>
    /\ m_raised = FALSE

KitIdle ==
    /\ k_pc = "idle"
    /\ k_args = <<>>
    /\ k_files = <<>>
    /\ k_idx = 1
    /\ k_pages = <<>>
    /\ k_out = {}
    /\ k_dir = FALSE
    /\ k_returned = <<>>
    /\ k_error = ""
    /\ k_sizes = <<>>
    /\ k_layout = <<>>
    /\ k_placed = <<>>

GenerateIdle ==
    /\ g_pc = "idle"
    /\ g_input = "ok"
    /\ g_api = "ok"
    /\ g_response = <<>>
    /\ g_part = 1
    /\ g_image = ""
    /\ g_from = <<>>
    /\ g_calls = 0
    /\ g_returned = <<>>
    /\ g_error = ""

WebIdle ==
    /\ w_pc = "idle"
    /\ w_args = <<>>
    /\ w_image = <<>>
    /\ w_template = <<>>
    /\ w_template_ok = TRUE
    /\ w_uri = <<>>
    /\ w_returned = <<>>
    /\ w_error = ""

SlugIdle ==
    /\ s_input = <<>>
    /\ s_email = <<>>
    /\ s_name = <<>>

DirIdle ==
    /\ d_calls = <<>>

CleanIdle ==
    /\ c_input = <<>>
    /\ c_returned = <<>>

LibIdleExcept(service) ==
    /\ IF service = "mail" THEN TRUE ELSE MailIdle
    /\ IF service = "kit" THEN TRUE ELSE KitIdle
    /\ IF service = "generate" THEN TRUE ELSE GenerateIdle
    /\ IF service = "web" THEN TRUE ELSE WebIdle
    /\ IF service = "slug" THEN TRUE ELSE SlugIdle
    /\ IF service = "dir" THEN TRUE ELSE DirIdle
    /\ IF service = "clean" THEN TRUE ELSE CleanIdle

LibIdle == LibIdleExcept("none")

NoPath == ""

\* ------------------------------------------------------------ time
\* strftime("%Y%m%d_%H%M"): the clock cut to whole minutes.
TimestampMinutes(t) == t \div (60 * TicksPerSecond)

\* datetime.now().strftime("%Y%m%d_%H%M%S"): the clock cut to whole seconds.
Timestamp(t) == t \div TicksPerSecond

\* ------------------------------------------------------------ trace helpers
Ev(op, photo, ok) == [op |-> op, photo |-> photo, ok |-> ok]

Positions(op) == {k \in 1..Len(trace) : trace[k].op = op}

Count(op, photo) ==
    Cardinality({k \in 1..Len(trace) : trace[k].op = op /\ trace[k].photo = photo})

\* ============================================================ app/worker.py

\* Outcomes of GeminiGenerator.generate_art for one photo.
GenOutcomes == {"ok", "read_error", "api_error", "no_image"}

\* generate() with one retry after an error of the model.
GenerateContentCallsRetry(outcome) ==
    IF outcome = "read_error" THEN 0 ELSE IF outcome = "api_error" THEN 2 ELSE 1

\* Number of model.generate_content calls made by one generate_art call: the
\* photo is read first (an unreadable photo ends the call before the model is
\* reached), then generate() calls the model once, with no retry loop.
GenerateContentCalls(outcome) == IF outcome = "read_error" THEN 0 ELSE 1

\* Outcomes of the SMTP session of send_pet_story_email.
SmtpOutcomes == {"sent", "rejected", "auth_error", "disconnected", "timeout"}

\* EmailService.send_pet_story_email: False when the service is not enabled,
\* False for every SMTP failure, True only when the message was sent.
SendPetStoryEmail(enabled, smtp) ==
    IF ~enabled THEN FALSE ELSE smtp = "sent"

\* The nome_pet and email arguments of the order.
order_nome_pet == "Rex"
order_email == "tutor@example.com"

\* return {"success": True, ...}
SuccessRecord(sent) ==
    [success |-> TRUE,
     nome_pet |-> order_nome_pet,
     email |-> order_email,
     photos_count |-> Len(photo_paths),
     arts_generated |-> Len(generated_arts),
     art_paths |-> generated_arts,
     pdf_path |-> pdf_path,
     html_path |-> html_path,
     email_sent |-> sent]

\* error_msg = f"Erro no processamento: {str(e)}"
ErrorMsg(msg) == "Erro no processamento: " \o msg

\* The failure record without the text of the exception.
FailureRecordGeneric(msg) ==
    [success |-> FALSE,
     error |-> "Erro no processamento",
     nome_pet |-> order_nome_pet,
     email |-> order_email]

\* return {"success": False, "error": error_msg, ...}
FailureRecord(msg) ==
    [success |-> FALSE,
     error |-> ErrorMsg(msg),
     nome_pet |-> order_nome_pet,
     email |-> order_email]

Goto(label) ==
    /\ pc' = label
    /\ UNCHANGED <<results, propagated>>

\* Raise without the outer handler: the exception leaves process_pet_story.
RaisePropagates(msg) ==
    /\ pc' = "done"
    /\ propagated' = TRUE
    /\ UNCHANGED results

\* The outer "except Exception" of process_pet_story: the error becomes the
\* returned failure record.
Raise(msg) ==
    /\ pc' = "done"
    /\ results' = Append(results, FailureRecord(msg))
    /\ UNCHANGED propagated

\* "except Exception: raise" around create_digital_kit.
ComposeFailed(msg) == Raise(msg)

\* The error of the page is logged and the order goes on to the e-mail.
RenderFailedSwallowed(msg) == Goto("notify")

\* "except Exception: raise" around generate_tribute_page and the HTML write.
RenderFailed(msg) == Raise(msg)

\* A failed photo ends the order.
PhotoFailedAborts ==
    /\ UNCHANGED idx
    /\ Raise("photo failed")

\* The inner "except Exception ... continue" of the photo loop: the photo is
\* left out and the loop goes on with the next one, without sleeping.
PhotoFailed ==
    /\ idx' = idx + 1
    /\ Goto("loop")

\* After generated_arts.append: sleep unless this was the last photo.
PhotoDone ==
    IF idx < Len(photo_paths)
    THEN /\ UNCHANGED idx
         /\ Goto("sleep")
    ELSE /\ idx' = idx + 1
         /\ Goto("loop")

\* The services are built and user_temp_dir is taken from photo_paths[0].
Start ==
    /\ pc = "start"
    /\ \/ /\ email_enabled' \in BOOLEAN
          /\ IF Len(photo_paths) = 0
             THEN Raise("list index out of range")
             ELSE Goto("loop")
       \/ /\ UNCHANGED email_enabled
          /\ Raise("service construction failed")
    /\ UNCHANGED <<photo_paths, idx, generated_arts, pdf_path, html_path, now,
                   disk, trace, kit_call, page_call, mail_call, upload_vars, lib_vars>>

\* gemini_service.generate_art(photo_path, ...) is entered for photo idx.
GenCall ==
    /\ pc = "loop"
    /\ idx <= Len(photo_paths)
    /\ trace' = Append(trace, Ev("generate_art", photo_paths[idx], TRUE))
    /\ Goto("generate_art")
    /\ UNCHANGED <<photo_paths, idx, generated_arts, email_enabled, pdf_path,
                   html_path, now, disk, kit_call, page_call, mail_call,
                   upload_vars, lib_vars>>

ModelEvents(photo, outcome) ==
    [k \in 1..GenerateContentCalls(outcome) |-> Ev("generate_content", photo, TRUE)]

\* generate_art returns the path arte_<timestamp>.png, or raises.
GenReturn ==
    /\ pc = "generate_art"
    /\ \E outcome \in GenOutcomes, d \in 0..MaxCallTicks :
        /\ now' = now + d
        /\ trace' = trace \o ModelEvents(photo_paths[idx], outcome)
                          \o <<Ev("return", photo_paths[idx], outcome = "ok")>>
        /\ IF outcome = "ok"
           THEN /\ generated_arts' = Append(generated_arts, Timestamp(now'))
                /\ disk' = [p \in DOMAIN disk \cup {Timestamp(now')} |->
                               IF p = Timestamp(now') THEN photo_paths[idx]
                               ELSE disk[p]]
                /\ PhotoDone
           ELSE /\ UNCHANGED <<generated_arts, disk>>
                /\ PhotoFailed
    /\ UNCHANGED <<photo_paths, email_enabled, pdf_path, html_path, kit_call,
                   page_call, mail_call, upload_vars, lib_vars>>

\* time.sleep(2)
Sleep ==
    /\ pc = "sleep"
    /\ now' = now + SleepSeconds * TicksPerSecond
    /\ trace' = Append(trace, Ev("sleep", photo_paths[idx], TRUE))
    /\ idx' = idx + 1
    /\ Goto("loop")
    /\ UNCHANGED <<photo_paths, generated_arts, email_enabled, pdf_path,
                   html_path, disk, kit_call, page_call, mail_call, upload_vars, lib_vars>>

\* The loop is left without looking at generated_arts.
GuardMissing ==
    /\ pc = "loop"
    /\ idx > Len(photo_paths)
    /\ Goto("compose")
    /\ UNCHANGED <<photo_paths, idx, generated_arts, email_enabled, pdf_path,
                   html_path, now, disk, trace, kit_call, page_call, mail_call,
                   upload_vars, lib_vars>>

\* if not generated_arts: raise Exception("Nenhuma arte foi gerada ...")
Guard ==
    /\ pc = "loop"
    /\ idx > Len(photo_paths)
    /\ IF generated_arts = <<>>
       THEN Raise("Nenhuma arte foi gerada com sucesso")
       ELSE Goto("compose")
    /\ UNCHANGED <<photo_paths, idx, generated_arts, email_enabled, pdf_path,
                   html_path, now, disk, trace, kit_call, page_call, mail_call,
                   upload_vars, lib_vars>>

\* pdf_service.create_digital_kit(...); its error is printed and raised again.
\* create_digital_kit itself raises ValueError for an empty art list.
\* kit_call also records, as "shows", the photo each art file passed shows.
Compose ==
    /\ pc = "compose"
    /\ trace' = Append(trace, Ev("create_digital_kit", 0, TRUE))
    /\ kit_call' = Append(kit_call,
                          [original_image_paths |-> photo_paths,
                           generated_art_paths |-> generated_arts,
                           shows |-> [k \in 1..Len(generated_arts) |->
                                          disk[generated_arts[k]]]])
    /\ \/ /\ generated_arts # <<>>
          /\ pdf_path' = "kit_digital.pdf"
          /\ Goto("render")
       \/ /\ UNCHANGED pdf_path
          /\ ComposeFailed("create_digital_kit raised")
    /\ UNCHANGED <<photo_paths, idx, generated_arts, email_enabled, html_path,
                   now, disk, page_call, mail_call, upload_vars, lib_vars>>

\* The page is given the last art.
TributeArtLast == generated_arts[Len(generated_arts)]

\* art_image_path=generated_arts[0]
TributeArt == generated_arts[1]

\* web_generator.generate_tribute_page(..., generated_arts[0]) and the write of
\* homenagem_<timestamp>.html; an error of either is printed and raised again.
Render ==
    /\ pc = "render"
    /\ trace' = Append(trace, Ev("generate_tribute_page", 0, TRUE))
    /\ page_call' = Append(page_call, TributeArt)
    /\ \/ /\ html_path' = "homenagem.html"
          /\ Goto("notify")
       \/ /\ UNCHANGED html_path
          /\ RenderFailed("generate_tribute_page raised")
       \/ /\ UNCHANGED html_path
          /\ RenderFailed("writing the tribute page raised")
    /\ UNCHANGED <<photo_paths, idx, generated_arts, email_enabled, pdf_path,
                   now, disk, kit_call, mail_call, upload_vars, lib_vars>>

\* An e-mail that was not delivered fails the order.
FinishFailsUndelivered(sent) ==
    /\ pc' = "done"
    /\ results' = Append(results, IF sent THEN SuccessRecord(sent)
                                   ELSE FailureRecord("e-mail not sent"))
    /\ UNCHANGED propagated

\* The order ends in success with the outcome of the dispatch in email_sent.
Finish(sent) ==
    /\ pc' = "done"
    /\ results' = Append(results, SuccessRecord(sent))
    /\ UNCHANGED propagated

\* Step 4: the PDF is read and send_pet_story_email is run; an exception of
\* either is logged and not raised again.
Notify ==
    /\ pc = "notify"
    /\ \/ /\ UNCHANGED <<trace, mail_call>>
          /\ Finish(FALSE)
       \/ \E smtp \in SmtpOutcomes :
             /\ trace' = Append(trace, Ev("send_pet_story_email", 0, TRUE))
             /\ mail_call' = Append(mail_call,
                                    [pdf |-> pdf_path, enabled |-> email_enabled,
                                     smtp |-> smtp])
             /\ Finish(SendPetStoryEmail(email_enabled, smtp))
       \/ /\ trace' = Append(trace, Ev("send_pet_story_email", 0, FALSE))
          /\ mail_call' = Append(mail_call,
                                 [pdf |-> pdf_path, enabled |-> email_enabled,
                                  smtp |-> "raised"])
          /\ Finish(FALSE)
    /\ UNCHANGED <<photo_paths, idx, generated_arts, email_enabled, pdf_path,
                   html_path, now, disk, kit_call, page_call, upload_vars, lib_vars>>

UploadIdle ==
    /\ requests = 0
    /\ responses = <<>>
    /\ orders = <<>>
    /\ dirs = {}
    /\ photo_files = {}
    /\ tasks = {}
    /\ task_log = <<>>
    /\ payment_service = FALSE
    /\ payments = <<>>
    /\ provider = [p \in {"p1"} |-> "notfound"]

Init ==
    /\ pc = "start"
    /\ photo_paths \in {[k \in 1..n |-> k] : n \in 0..MaxPhotos}
    /\ idx = 1
    /\ generated_arts = <<>>
    /\ email_enabled = FALSE
    /\ pdf_path = NoPath
    /\ html_path = NoPath
    /\ now \in 0..(TicksPerSecond - 1)
    /\ disk = <<>>
    /\ trace = <<>>
    /\ kit_call = <<>>
    /\ page_call = <<>>
    /\ mail_call = <<>>
    /\ results = <<>>
    /\ propagated = FALSE
    /\ UploadIdle
    /\ LibIdle

Next ==
    \/ Start
    \/ GenCall
    \/ GenReturn
    \/ Sleep
    \/ Guard
    \/ Compose
    \/ Render
    \/ Notify

Spec == Init /\ [][Next]_vars

\* ========================================================= app/utils/slug.py
\* Strings are sequences of one-character strings.

LowerCase == <<"a","b","c","d","e","f","g","h","i","j","k","l","m",
               "n","o","p","q","r","s","t","u","v","w","x","y","z">>
UpperCase == <<"A","B","C","D","E","F","G","H","I","J","K","L","M",
               "N","O","P","Q","R","S","T","U","V","W","X","Y","Z">>
DigitChars == <<"0","1","2","3","4","5","6","7","8","9">>

Letters == {LowerCase[i] : i \in 1..26}
Digits == {DigitChars[i] : i \in 1..10}
\* What str.strip() removes and what \s matches.
Whitespace == {" ", "\t", "\n"}

\* str.lower(), one character
ToLower(c) ==
    IF \E i \in 1..26 : UpperCase[i] = c
    THEN LowerCase[CHOOSE i \in 1..26 : UpperCase[i] = c]
    ELSE c

\* str.lower()
Lower(s) == [i \in 1..Len(s) |-> ToLower(s[i])]

RECURSIVE LStrip(_, _)
LStrip(s, chars) ==
    IF s # <<>> /\ Head(s) \in chars THEN LStrip(Tail(s), chars) ELSE s

RECURSIVE RStrip(_, _)
RStrip(s, chars) ==
    IF s # <<>> /\ s[Len(s)] \in chars
    THEN RStrip(SubSeq(s, 1, Len(s) - 1), chars)
    ELSE s

\* str.strip(chars)
Strip(s, chars) == RStrip(LStrip(s, chars), chars)

\* str.replace(old, new) for one-character old and new
Replace(s, old, new) == [i \in 1..Len(s) |-> IF s[i] = old THEN new ELSE s[i]]

\* re.sub(r"[^...]", "", s): only the characters of the class are kept
Keep(s, class) == SelectSeq(s, LAMBDA c : c \in class)

\* re.sub(r"-+", "-", s)
RECURSIVE CollapseDashes(_)
CollapseDashes(s) ==
    IF Len(s) <= 1 THEN s
    ELSE IF s[1] = "-" /\ s[2] = "-" THEN CollapseDashes(Tail(s))
    ELSE <<s[1]>> \o CollapseDashes(Tail(s))

\* slug[:n]
Truncate(s, n) == SubSeq(s, 1, IF Len(s) > n THEN n ELSE Len(s))

email_to_slug(email) ==
    LET s1 == Strip(Lower(email), Whitespace)
        s2 == Replace(Replace(s1, "@", "-"), ".", "-")
        s3 == Keep(s2, Letters \cup Digits \cup {"-"})
        s4 == CollapseDashes(s3)
    IN  Strip(s4, {"-"})

name_to_slug(name) ==
    LET s1 == Strip(Lower(name), Whitespace)
        s2 == Keep(s1, Letters \cup Digits \cup Whitespace \cup {"-"})
        s3 == Replace(s2, " ", "-")
        s4 == CollapseDashes(s3)
        s5 == Strip(s4, {"-"})
    IN  IF Len(s5) > SlugMaxLen THEN Truncate(s5, SlugMaxLen) ELSE s5

\* A directory named after the pet alone.
order_dir_of_pet(base_dir, email, pet_name, timestamp) ==
    base_dir \o <<"/">> \o email_to_slug(email) \o <<"/">>
             \o name_to_slug(pet_name)

\* f"{base_dir}/{email_slug}/{pet_slug}_{timestamp}"
get_unique_order_dir(base_dir, email, pet_name, timestamp) ==
    base_dir \o <<"/">> \o email_to_slug(email) \o <<"/">>
             \o name_to_slug(pet_name) \o <<"_">> \o timestamp

\* ============================================================== app/main.py

\* strftime("%Y%m%d_%H%M%S") of the clock: the second, as digits.
FormatTimestamp(t) ==
    <<DigitChars[((Timestamp(t) \div 10) % 10) + 1],
      DigitChars[(Timestamp(t) % 10) + 1]>>

\* settings.TEMP_DIR
TempDir == <<"t", "e", "m", "p">>

\* The parameters of process_pet_story, all required.
WorkerParams == {"nome_pet", "pet_date", "pet_story", "email", "photo_paths"}

\* Whether a call with these keyword arguments binds to process_pet_story;
\* otherwise Python raises TypeError before the body runs.
Binds(kwargs) == DOMAIN kwargs = WorkerParams

\* ---- inputs of the upload form
Emails == { <<"a", "@", "x">>, <<"A", "@", "x">>, <<"a", ".", "b", "@", "x">>,
            <<"a", "x">> }
PetNames == { <<"R", "e", "x">>, <<"r", "e", "x", "!">>, <<"M", "a", "x", " ", "2">>,
              <<" ">> }
Stories == { <<"o", "k">>, <<" ">> }
\* One uploaded file: its content type is allowed or not, it is empty, it is
\* larger than 10 MB, or it is good.
FotoLists == { <<>>, <<"good">>, <<"good", "good">>, <<"good", "badtype">>,
               <<"empty">>, <<"toobig", "good">>,
               [i \in 1..(MaxFotos + 1) |-> "good"] }

\* The first photo the loop rejects, 0 if none.
FirstBadFoto(fotos) ==
    IF \E i \in 1..Len(fotos) : fotos[i] # "good"
    THEN CHOOSE i \in 1..Len(fotos) :
            /\ fotos[i] # "good"
            /\ \A j \in 1..(i - 1) : fotos[j] = "good"
    ELSE 0

\* ---- payments
\* payment_id: str = Form(None)
NoPaymentId == "None"
PaymentIds == {"p1"}
\* The status the provider reports, "notfound" when get_payment_info is None.
ProviderStatuses == {"approved", "pending", "notfound"}
\* payer.email and the second part of external_reference at the provider.
PayerEmail == <<"a", "@", "x">>
PayerPetName == <<"R", "e", "x">>

\* timedelta(hours=24), in clock ticks
Hours24 == 24 * 3600 * TicksPerSecond

\* PaymentService.is_payment_approved(payment_id)
is_payment_approved(payment_id) == provider[payment_id] = "approved"

\* PaymentStorage.can_upload without the limit of 24 hours.
can_upload_any_age(email, pet_name) ==
    \E p \in DOMAIN payments :
        /\ payments[p].email = email
        /\ payments[p].pet_name = pet_name
        /\ payments[p].status = "approved"

\* PaymentStorage.can_upload(email, pet_name)
can_upload(email, pet_name) ==
    \E p \in DOMAIN payments :
        /\ payments[p].email = email
        /\ payments[p].pet_name = pet_name
        /\ payments[p].status = "approved"
        /\ now - payments[p].timestamp < Hours24

\* payment_verified at the end of the payment block of upload_pet_story
PaymentVerified(payment_id, email, nome_pet) ==
    IF payment_id # NoPaymentId
    THEN is_payment_approved(payment_id)
    ELSE can_upload(email, nome_pet)

\* PaymentStorage.save_payment: the entry is replaced, stamped with the clock.
SavePayment(payment_id, status, email, pet_name) ==
    payments' = [p \in DOMAIN payments \cup {payment_id} |->
                    IF p = payment_id
                    THEN [status |-> status, email |-> email,
                          pet_name |-> pet_name, timestamp |-> now]
                    ELSE payments[p]]

\* The checks made before the order directory is created: 0 when all pass.
EarlyStatus(email, nome_pet, pet_story, fotos, payment_verified) ==
    IF email = <<>> \/ ~(\E i \in 1..Len(email) : email[i] = "@") THEN 400
    ELSE IF Strip(nome_pet, Whitespace) = <<>> THEN 400
    ELSE IF Strip(pet_story, Whitespace) = <<>> THEN 400
    ELSE IF payment_service /\ ~payment_verified THEN 402
    ELSE IF Len(fotos) = 0 THEN 400
    ELSE IF Len(fotos) > MaxFotos THEN 400
    ELSE 0

\* background_tasks.add_task(process_pet_story, nome_pet=..., ...)
TaskKwargs(email, nome_pet, pet_story, dir, fotos, t) ==
    [nome_pet |-> Strip(nome_pet, Whitespace),
     pet_date |-> <<>>,
     pet_story |-> Strip(pet_story, Whitespace),
     email |-> Strip(email, Whitespace),
     order_temp_dir |-> dir,
     photo_data_list |-> [i \in 1..Len(fotos) |-> <<"foto", i, FormatTimestamp(t)>>],
     timestamp |-> FormatTimestamp(t)]

\* POST /api/upload, the form fields drawn from the given sets
UploadOf(emails, pet_names, stories, foto_lists, payment_ids) ==
    /\ requests < MaxRequests
    /\ requests' = requests + 1
    /\ \E email \in emails, nome_pet \in pet_names, pet_story \in stories,
          fotos \in foto_lists, payment_id \in payment_ids :
        LET payment_verified == PaymentVerified(payment_id, email, nome_pet)
            early == EarlyStatus(email, nome_pet, pet_story, fotos, payment_verified)
            dir == get_unique_order_dir(TempDir, email, nome_pet, FormatTimestamp(now))
            order == [id |-> requests + 1,
                      email |-> email,
                      nome_pet |-> nome_pet,
                      payment_id |-> payment_id,
                      at |-> now,
                      dir |-> dir,
                      files |-> {<<"foto", i, FormatTimestamp(now)>> : i \in 1..Len(fotos)}]
        IN  IF early # 0
            THEN /\ responses' = Append(responses, early)
                 /\ UNCHANGED <<orders, dirs, tasks>>
            ELSE /\ dirs' = dirs \cup {dir}
                 /\ IF FirstBadFoto(fotos) # 0
                    THEN /\ responses' = Append(responses, 400)
                         /\ UNCHANGED <<orders, tasks>>
                    ELSE /\ responses' = Append(responses, 200)
                         /\ orders' = Append(orders, order)
                         /\ tasks' = tasks \cup
                               {[order |-> requests + 1,
                                 kwargs |-> TaskKwargs(email, nome_pet, pet_story,
                                                       dir, fotos, now)]}
    /\ UNCHANGED <<photo_files, task_log, payment_service, payments, provider, now,
                   worker_vars, lib_vars>>

Upload == UploadOf(Emails, PetNames, Stories, FotoLists, PaymentIds \cup {NoPaymentId})

\* A queued background task runs: process_pet_story(**kwargs).
RunTask ==
    /\ \E t \in tasks :
        /\ tasks' = tasks \ {t}
        /\ task_log' = Append(task_log,
                              [order |-> t.order,
                               outcome |-> IF Binds(t.kwargs) THEN "started"
                                           ELSE "TypeError"])
    /\ UNCHANGED <<requests, responses, orders, dirs, photo_files,
                   payment_service, payments, provider, now, worker_vars, lib_vars>>

\* The wall clock advances.
Tick ==
    /\ now < MaxClock
    /\ now' = now + 1
    /\ UNCHANGED <<upload_vars, worker_vars, lib_vars>>

WorkerIdle ==
    /\ pc = "idle"
    /\ photo_paths = <<>>
    /\ idx = 1
    /\ generated_arts = <<>>
    /\ email_enabled = FALSE
    /\ pdf_path = NoPath
    /\ html_path = NoPath
    /\ disk = <<>>
    /\ trace = <<>>
    /\ kit_call = <<>>
    /\ page_call = <<>>
    /\ mail_call = <<>>
    /\ results = <<>>
    /\ propagated = FALSE

UploadInit ==
    /\ WorkerIdle
    /\ now = 0
    /\ requests = 0
    /\ responses = <<>>
    /\ orders = <<>>
    /\ dirs = {}
    /\ photo_files = {}
    /\ tasks = {}
    /\ task_log = <<>>
    /\ payment_service \in BOOLEAN
    /\ payments = <<>>
    /\ provider = [p \in PaymentIds |-> "approved"]
    /\ LibIdle

UploadNext ==
    \/ Upload
    \/ RunTask
    \/ Tick

UploadSpec == UploadInit /\ [][UploadNext]_vars

\* ----------------------------------------------- the payment gate (PaySpec)
\* The upload endpoint together with the endpoints that fill the payment
\* store, the provider changing its mind and the clock running for a day.

\* POST /api/payment/webhook: the provider's data of the payment are saved.
PaymentWebhook ==
    /\ \E payment_id \in PaymentIds :
         IF payment_service /\ provider[payment_id] # "notfound"
         THEN SavePayment(payment_id, provider[payment_id], PayerEmail, PayerPetName)
         ELSE UNCHANGED payments
    /\ UNCHANGED <<requests, responses, orders, dirs, photo_files, tasks, task_log,
                   payment_service, provider, now, worker_vars, lib_vars>>

\* GET /api/payment/success: the status at the provider is saved under the
\* e-mail and pet name of the query.
PaymentSuccess ==
    /\ \E email \in { <<"a", "@", "x">>, <<"b", "@", "x">> },
          pet_name \in { <<"R", "e", "x">>, <<"M", "a", "x">> },
          payment_id \in PaymentIds \cup {NoPaymentId} :
         IF payment_id # NoPaymentId /\ payment_service
               /\ provider[payment_id] # "notfound"
         THEN SavePayment(payment_id, provider[payment_id], email, pet_name)
         ELSE UNCHANGED payments
    /\ UNCHANGED <<requests, responses, orders, dirs, photo_files, tasks, task_log,
                   payment_service, provider, now, worker_vars, lib_vars>>

\* The provider approves a pending payment.
ProviderApproves ==
    /\ \E p \in PaymentIds :
         /\ provider[p] = "pending"
         /\ provider' = [provider EXCEPT ![p] = "approved"]
    /\ UNCHANGED <<requests, responses, orders, dirs, photo_files, tasks, task_log,
                   payment_service, payments, now, worker_vars, lib_vars>>

\* Twenty-four hours pass.
Day ==
    /\ now < MaxClock
    /\ now' = now + Hours24
    /\ UNCHANGED <<upload_vars, worker_vars, lib_vars>>

\* The uploads of this specification: a valid and an invalid e-mail, with and
\* without a payment id.
PayEmails == { <<"a", "@", "x">>, <<"a", "x">> }
PayPetNames == { <<"R", "e", "x">> }
PayStories == { <<"o", "k">> }
PayFotoLists == { <<"good">> }

PaidUpload ==
    UploadOf(PayEmails, PayPetNames, PayStories, PayFotoLists,
             PaymentIds \cup {NoPaymentId})

PayInit ==
    /\ WorkerIdle
    /\ now = 0
    /\ requests = 0
    /\ responses = <<>>
    /\ orders = <<>>
    /\ dirs = {}
    /\ photo_files = {}
    /\ tasks = {}
    /\ task_log = <<>>
    /\ payment_service \in BOOLEAN
    /\ payments = <<>>
    /\ provider \in [PaymentIds -> ProviderStatuses]
    /\ LibIdle

PayNext ==
    \/ PaidUpload
    \/ RunTask
    \/ PaymentWebhook
    \/ PaymentSuccess
    \/ ProviderApproves
    \/ Tick
    \/ Day

PaySpec == PayInit /\ [][PayNext]_vars

\* ============================================ app/services/email_service.py
\* One call of EmailService.send_pet_story_email on a freshly built service.

\* The values of SMTP_USER and SMTP_PASSWORD: not set, or set.
Credentials == {"", "secret"}

\* self.enabled of __init__: both the user and the password are set.
Enabled(user, password) == user # "" /\ password # ""

\* The to_email arguments tried.
ToEmails == { <<>>, <<"a">>, <<"a", "@", "b">>, <<"c", "@", "d">> }

\* An address of the message other than to_email.
OtherAddress == <<"o", "@", "o">>

\* "if not to_email or "@" not in to_email".
InvalidAddress(to) == to = <<>> \/ ~(\E k \in 1..Len(to) : to[k] = "@")

\* The exceptions the SMTP session can raise, each with an except clause of
\* its own, the last clause taking every other exception.
SmtpErrors == {"SMTPAuthenticationError", "SMTPServerDisconnected",
               "SMTPRecipientsRefused", "SMTPDataError", "SMTPException",
               "TimeoutError", "Exception"}

\* The exceptions each step of the session can raise.
StepErrors(step) ==
    CASE step = "connect" ->
            {"SMTPServerDisconnected", "SMTPException", "TimeoutError", "Exception"}
      [] step = "starttls" ->
            {"SMTPServerDisconnected", "SMTPException", "TimeoutError", "Exception"}
      [] step = "login" ->
            {"SMTPAuthenticationError", "SMTPServerDisconnected", "SMTPException",
             "TimeoutError", "Exception"}
      [] step = "send_message" ->
            {"SMTPRecipientsRefused", "SMTPDataError", "SMTPServerDisconnected",
             "SMTPException", "TimeoutError", "Exception"}
      [] step = "quit" -> {"SMTPException", "TimeoutError", "Exception"}

\* "return False" of the except clauses and of the rejected recipient.
FailedValue == FALSE

\* "return True" after send_message.
DeliveredValue == TRUE

MailReturn(value) ==
    /\ m_pc' = "done"
    /\ m_returned' = Append(m_returned, value)
    /\ UNCHANGED <<m_error, m_raised>>

\* An except clause that raises the exception again.
SmtpFailedRaises(kind) ==
    /\ m_pc' = "done"
    /\ m_error' = kind
    /\ m_raised' = TRUE
    /\ UNCHANGED m_returned

\* The except clauses of send_pet_story_email: each logs the error and
\* returns False.
SmtpFailed(kind) ==
    /\ m_pc' = "done"
    /\ m_error' = kind
    /\ m_returned' = Append(m_returned, FailedValue)
    /\ UNCHANGED m_raised

\* A service that is not enabled simulates the dispatch and reports True.
NotEnabledSimulated == MailReturn(TRUE)

\* "if not self.enabled": the e-mail is logged and False is returned.
NotEnabled == MailReturn(FALSE)

\* The call up to the SMTP session: the enabled check, the address check and
\* the building of the message with the PDF attached.
MailEnter ==
    /\ m_pc = "call"
    /\ IF ~m_enabled THEN NotEnabled
       ELSE IF InvalidAddress(m_to) THEN MailReturn(FailedValue)
       ELSE \/ /\ m_pc' = "connect"
               /\ UNCHANGED <<m_error, m_returned, m_raised>>
            \/ SmtpFailed("Exception")
    /\ UNCHANGED <<m_user, m_password, m_enabled, m_to, m_smtp, m_refused>>

\* One step of the session that either succeeds and goes on to the next
\* step or raises, which ends the call through an except clause.  An
\* exception raised inside the with block sends QUIT on the way out.
SmtpStep(here, step, next) ==
    /\ m_pc = here
    /\ \/ /\ m_smtp' = Append(m_smtp, step)
          /\ m_pc' = next
          /\ UNCHANGED <<m_error, m_returned, m_raised>>
       \/ \E e \in StepErrors(step) :
             /\ m_smtp' = IF step = "connect" THEN Append(m_smtp, step)
                          ELSE m_smtp \o <<step, "quit">>
             /\ SmtpFailed(e)
    /\ UNCHANGED <<m_user, m_password, m_enabled, m_to, m_refused>>

\* with smtplib.SMTP(server, port, timeout=30) as server
MailConnect == SmtpStep("connect", "connect", "starttls")

\* server.starttls()
MailStartTls == SmtpStep("starttls", "starttls", "login")

\* server.login(self.smtp_user, self.smtp_password)
MailLogin == SmtpStep("login", "login", "send")

\* send_result = server.send_message(msg)
MailSend ==
    /\ m_pc = "send"
    /\ \/ \E refused \in SUBSET {m_to, OtherAddress} :
             /\ m_smtp' = Append(m_smtp, "send_message")
             /\ m_refused' = refused
             /\ m_pc' = "sent"
             /\ UNCHANGED <<m_error, m_returned, m_raised>>
       \/ \E e \in StepErrors("send_message") :
             /\ m_smtp' = m_smtp \o <<"send_message", "quit">>
             /\ SmtpFailed(e)
             /\ UNCHANGED m_refused
    /\ UNCHANGED <<m_user, m_password, m_enabled, m_to>>

\* "if send_result: rejected = send_result.get(to_email, [])": False when the
\* dictionary names to_email, True otherwise; the with block is left, which
\* sends QUIT.
MailResult ==
    /\ m_pc = "sent"
    /\ m_smtp' = Append(m_smtp, "quit")
    /\ \/ MailReturn(IF m_to \in m_refused THEN FailedValue ELSE DeliveredValue)
       \/ \E e \in StepErrors("quit") : SmtpFailed(e)
    /\ UNCHANGED <<m_user, m_password, m_enabled, m_to, m_refused>>

MailInit ==
    /\ WorkerIdle
    /\ UploadIdle
    /\ now = 0
    /\ LibIdleExcept("mail")
    /\ m_pc = "call"
    /\ m_user \in Credentials
    /\ m_password \in Credentials
    /\ m_enabled = Enabled(m_user, m_password)
    /\ m_to \in ToEmails
    /\ m_smtp = <<>>
    /\ m_refused = {}
    /\ m_error = ""
    /\ m_returned = <<>>
    /\ m_raised = FALSE

MailNext ==
    \/ (MailEnter /\ UNCHANGED not_mail)
    \/ (MailConnect /\ UNCHANGED not_mail)
    \/ (MailStartTls /\ UNCHANGED not_mail)
    \/ (MailLogin /\ UNCHANGED not_mail)
    \/ (MailSend /\ UNCHANGED not_mail)
    \/ (MailResult /\ UNCHANGED not_mail)

MailSpec == MailInit /\ [][MailNext]_vars

\* ============================================== app/services/pdf_service.py
\* One call of PDFService.create_digital_kit.

\* The image files a call can name.
KitFiles == 1..MaxArts

\* Sequences over S of length at most n.
SeqsUpTo(S, n) == UNION {[1..m -> S] : m \in 0..n}

\* os.path.exists(path)
Exists(file) == k_files[file] # "missing"

\* Image.open(path) and the conversion of the image succeed.
Decodes(file) == k_files[file] = "ok"

\* The arguments tried: generated_art_paths given as a list or as None,
\* original_image_paths, sticker_paths and story_text given or left out.
KitArgs ==
    {[generated_art_paths |-> arts,
      has_art_list |-> TRUE,
      original_image_paths |-> originals,
      sticker_paths |-> stickers,
      story_text |-> story] :
         arts \in SeqsUpTo(KitFiles, MaxArts),
         originals \in SeqsUpTo(KitFiles, MaxOriginals),
         stickers \in {<<>>} \cup {<<f>> : f \in KitFiles},
         story \in BOOLEAN}
    \cup
    {[generated_art_paths |-> <<>>,
      has_art_list |-> FALSE,
      original_image_paths |-> <<>>,
      sticker_paths |-> <<>>,
      story_text |-> story] : story \in BOOLEAN}

\* f"kit_digital_{timestamp}.pdf" in output_dir
PdfName == "kit_digital.pdf"

Page(kind, art, images) == [kind |-> kind, art |-> art, images |-> images]

\* An image drawn in a slot of a page.
Slot(n, file) == [slot |-> n, file |-> file]

\* The images of a page: each "try: Image.open ... pdf.image ... except" draws
\* the file of its slot when it decodes and leaves the slot empty otherwise.
Drawn(files) ==
    LET slots == [n \in 1..Len(files) |-> Slot(n - 1, files[n])]
        Shown(s) == Decodes(s.file)
    IN  SelectSeq(slots, Shown)

\* ---- lengths in millimetres, as fractions <<numerator, denominator>>
RECURSIVE GCD(_, _)
GCD(a, b) == IF b = 0 THEN a ELSE GCD(b, a % b)

Abs(n) == IF n < 0 THEN -n ELSE n

\* The fraction n/d in lowest terms with a positive denominator.
Norm(n, d) ==
    LET sign == IF d < 0 THEN -1 ELSE 1
        g == GCD(Abs(n), Abs(d))
    IN  <<(sign * n) \div g, (sign * d) \div g>>

Frac(n) == <<n, 1>>
FracAdd(a, b) == Norm(a[1] * b[2] + b[1] * a[2], a[2] * b[2])
FracSub(a, b) == Norm(a[1] * b[2] - b[1] * a[2], a[2] * b[2])
FracMul(a, b) == Norm(a[1] * b[1], a[2] * b[2])
FracDiv(a, b) == Norm(a[1] * b[2], a[2] * b[1])
FracLt(a, b) == a[1] * b[2] < b[1] * a[2]
FracMin(a, b) == IF FracLt(b, a) THEN b ELSE a

\* img_width / img_height
AspectRatio(file) == Norm(k_sizes[file][1], k_sizes[file][2])

\* "if aspect_ratio > (max_width / max_height)": the image is wider than the
\* box.
Wider(aspect_ratio, max_width, max_height) ==
    FracLt(FracDiv(max_width, max_height), aspect_ratio)

\* The image fills the box and overflows it on the other axis.
Fill(aspect_ratio, max_width, max_height) ==
    IF Wider(aspect_ratio, max_width, max_height)
    THEN [width |-> FracMul(max_height, aspect_ratio), height |-> max_height]
    ELSE [width |-> max_width, height |-> FracDiv(max_width, aspect_ratio)]

\* "width = max_width; height = max_width / aspect_ratio" if the image is
\* wider, else "height = max_height; width = max_height * aspect_ratio".
Fit(aspect_ratio, max_width, max_height) ==
    IF Wider(aspect_ratio, max_width, max_height)
    THEN [width |-> max_width, height |-> FracDiv(max_width, aspect_ratio)]
    ELSE [width |-> FracMul(max_height, aspect_ratio), height |-> max_height]

\* The stickers: "if aspect_ratio > 1" decides, the cell being a square.
FitSquare(aspect_ratio, sticker_size) ==
    IF FracLt(Frac(1), aspect_ratio)
    THEN [width |-> sticker_size, height |-> FracDiv(sticker_size, aspect_ratio)]
    ELSE [width |-> FracMul(sticker_size, aspect_ratio), height |-> sticker_size]

\* pdf.image(temp_buffer, x=x, y=y, w=width, h=height), with the box the size
\* was fitted to and, in a grid, the corner of the cell.
Placed(page, index, file, box, cell, x, y, size) ==
    [page |-> page, index |-> index, file |-> file, box |-> box, cell |-> cell,
     x |-> x, y |-> y, width |-> size.width, height |-> size.height]

NoCell == <<>>

\* The cover: the first art in a box of 160 x 140 below the title.
CoverPlaced ==
    LET file == k_args.generated_art_paths[1]
        title_y == 50
        max_width == Frac(160)
        max_height == Frac(140)
        size == Fit(AspectRatio(file), max_width, max_height)
        x == FracDiv(FracSub(Frac(A4_WIDTH_MM), size.width), Frac(2))
        y == Frac(title_y + 25)
    IN  IF Decodes(file)
        THEN <<Placed("cover", 0, file, <<max_width, max_height>>, NoCell, x, y, size)>>
        ELSE <<>>

KitRaise(kind) ==
    /\ k_pc' = "done"
    /\ k_error' = kind
    /\ UNCHANGED <<k_pages, k_placed, k_out, k_dir, k_returned>>

\* The texts are cleaned and story_text is cut into one part per art, which
\* takes len(generated_art_paths); then "if not generated_art_paths ...:
\* raise ValueError(...)".
KitEnter ==
    /\ k_pc = "call"
    /\ IF k_args.story_text /\ ~k_args.has_art_list
       THEN KitRaise("TypeError")
       ELSE IF ~k_args.has_art_list \/ Len(k_args.generated_art_paths) = 0
       THEN KitRaise("ValueError")
       ELSE /\ k_pc' = "cover"
            /\ UNCHANGED <<k_pages, k_placed, k_out, k_dir, k_returned, k_error>>
    /\ UNCHANGED <<k_args, k_files, k_sizes, k_layout, k_idx>>

\* Page 1, the cover, with the first art.
KitCover ==
    /\ k_pc = "cover"
    /\ k_pages' = Append(k_pages,
                         Page("cover", 0, Drawn(<<k_args.generated_art_paths[1]>>)))
    /\ k_placed' = k_placed \o CoverPlaced
    /\ k_pc' = "story"
    /\ UNCHANGED <<k_args, k_files, k_sizes, k_layout, k_idx, k_out, k_dir, k_returned, k_error>>

\* biography_image_path: the first original photo if it exists, else the
\* first art.
BiographyImagePath ==
    IF /\ Len(k_args.original_image_paths) > 0
       /\ Exists(k_args.original_image_paths[1])
    THEN k_args.original_image_paths[1]
    ELSE k_args.generated_art_paths[1]

\* The story page shows one photo, biography_image_path.
BiographyImageAlone ==
    IF Exists(BiographyImagePath) THEN <<BiographyImagePath>> ELSE <<>>

\* all_original_photos: the original photos that exist, or
\* biography_image_path alone when there is none and it exists.
AllOriginalPhotos ==
    LET existing == SelectSeq(k_args.original_image_paths, Exists)
    IN  IF existing # <<>> THEN existing
        ELSE IF Exists(BiographyImagePath) THEN <<BiographyImagePath>>
        ELSE <<>>

\* The grid of the story page: cols, rows and the size of a cell.
StoryGrid ==
    LET num_photos == Len(AllOriginalPhotos)
        border_margin == 15
        cols == IF num_photos = 1 THEN 1 ELSE IF num_photos <= 4 THEN 2 ELSE 3
        rows == (num_photos + cols - 1) \div cols
        photo_spacing == 8
        available_width == A4_WIDTH_MM - (2 * border_margin)
                              - (cols - 1) * photo_spacing
        available_height == 120
        photo_width == FracDiv(Frac(available_width), Frac(cols))
        photo_height == FracMin(FracDiv(Frac(available_height), Frac(rows)),
                                FracMul(photo_width, <<3, 4>>))
    IN  [num_photos |-> num_photos, cols |-> cols, rows |-> rows,
         border_margin |-> border_margin, photo_spacing |-> photo_spacing,
         photo_width |-> photo_width, photo_height |-> photo_height]

\* photos_start_y: below the title, and below the date when there is one.
PhotosStartY == IF k_layout.pet_date THEN 65 ELSE 52

\* "for row in range(rows): ... for col in range(cols): ...": both loops stop
\* when the photos are used up; photo_idx and current_x advance whether or
\* not the photo could be drawn.
RECURSIVE StoryLoop(_, _, _, _, _, _)
StoryLoop(grid, row, col, photo_idx, current_x, current_y) ==
    IF row >= grid.rows \/ photo_idx >= grid.num_photos THEN <<>>
    ELSE IF col >= grid.cols
    THEN StoryLoop(grid, row + 1, 0, photo_idx, Frac(grid.border_margin),
                   FracAdd(current_y,
                           FracAdd(grid.photo_height, Frac(grid.photo_spacing))))
    ELSE LET file == AllOriginalPhotos[photo_idx + 1]
             size == Fit(AspectRatio(file), grid.photo_width, grid.photo_height)
             cell_x == FracAdd(current_x,
                               FracDiv(FracSub(grid.photo_width, size.width),
                                       Frac(2)))
             cell_y == FracAdd(current_y,
                               FracDiv(FracSub(grid.photo_height, size.height),
                                       Frac(2)))
             drawn == IF Decodes(file)
                      THEN <<Placed("story", photo_idx, file,
                                    <<grid.photo_width, grid.photo_height>>,
                                    <<current_x, current_y>>, cell_x, cell_y, size)>>
                      ELSE <<>>
         IN  drawn \o StoryLoop(grid, row, col + 1, photo_idx + 1,
                                FracAdd(current_x,
                                        FracAdd(grid.photo_width,
                                                Frac(grid.photo_spacing))),
                                current_y)

StoryPlaced ==
    StoryLoop(StoryGrid, 0, 0, 0, Frac(StoryGrid.border_margin), Frac(PhotosStartY))

\* Page 2, the story of the pet with the grid of photos.
KitStory ==
    /\ k_pc = "story"
    /\ k_pages' = Append(k_pages, Page("story", 0, Drawn(AllOriginalPhotos)))
    /\ k_placed' = k_placed \o StoryPlaced
    /\ k_idx' = 1
    /\ k_pc' = "coloring"
    /\ UNCHANGED <<k_args, k_files, k_sizes, k_layout, k_out, k_dir, k_returned, k_error>>

\* story_height: where the story part of the page ends, 40 without one.
StoryHeight == IF k_args.story_text THEN k_layout.story_height ELSE 40

\* A coloring page: the art in the area below the title and the story part.
ColoringPlaced(art_idx) ==
    LET file == k_args.generated_art_paths[art_idx]
        bleed_margin == 5
        available_width == Frac(A4_WIDTH_MM - (2 * bleed_margin))
        available_height == Frac(A4_HEIGHT_MM - StoryHeight - 10)
        aspect_ratio == AspectRatio(file)
        size == Fit(aspect_ratio, available_width, available_height)
        x == IF Wider(aspect_ratio, available_width, available_height)
             THEN Frac(bleed_margin)
             ELSE FracDiv(FracSub(Frac(A4_WIDTH_MM), size.width), Frac(2))
        y == Frac(StoryHeight + 5)
    IN  IF Decodes(file)
        THEN <<Placed("coloring", art_idx, file, <<available_width, available_height>>,
                      NoCell, x, y, size)>>
        ELSE <<>>

\* The image of a coloring page is drawn outside any try block.
KitColoringUnguarded ==
    /\ k_pc = "coloring"
    /\ k_idx <= Len(k_args.generated_art_paths)
    /\ IF Decodes(k_args.generated_art_paths[k_idx])
       THEN /\ k_pages' = Append(k_pages,
                   Page("coloring", k_idx,
                        Drawn(<<k_args.generated_art_paths[k_idx]>>)))
            /\ k_placed' = k_placed \o ColoringPlaced(k_idx)
            /\ k_idx' = k_idx + 1
            /\ UNCHANGED <<k_pc, k_error>>
       ELSE /\ k_pc' = "done"
            /\ k_error' = "UnidentifiedImageError"
            /\ UNCHANGED <<k_pages, k_placed, k_idx>>
    /\ UNCHANGED <<k_args, k_files, k_sizes, k_layout, k_out, k_dir, k_returned>>

\* One turn of "for idx, art_path in enumerate(generated_art_paths, 1)": a
\* page is added for the art and its image is drawn inside a try block.
KitColoring ==
    /\ k_pc = "coloring"
    /\ k_idx <= Len(k_args.generated_art_paths)
    /\ k_pages' = Append(k_pages,
                         Page("coloring", k_idx,
                              Drawn(<<k_args.generated_art_paths[k_idx]>>)))
    /\ k_placed' = k_placed \o ColoringPlaced(k_idx)
    /\ k_idx' = k_idx + 1
    /\ UNCHANGED <<k_pc, k_args, k_files, k_sizes, k_layout, k_out, k_dir, k_returned, k_error>>

\* "for orig_path in original_image_paths: if os.path.exists(orig_path) and
\* orig_path not in all_sticker_images: all_sticker_images.append(orig_path)"
RECURSIVE Extend(_, _)
Extend(pool, originals) ==
    IF originals = <<>> THEN pool
    ELSE LET orig_path == Head(originals)
             present == \E n \in 1..Len(pool) : pool[n] = orig_path
         IN  Extend(IF Exists(orig_path) /\ ~present
                    THEN Append(pool, orig_path) ELSE pool,
                    Tail(originals))

\* The original photos are not offered as stickers.
StickerImagesWithoutOriginals ==
    IF Len(k_args.sticker_paths) > 0 THEN k_args.sticker_paths
    ELSE k_args.generated_art_paths

\* sticker_images: sticker_paths if any, else generated_art_paths, then the
\* original photos that exist and are not yet in the list.
StickerImages ==
    Extend(IF Len(k_args.sticker_paths) > 0 THEN k_args.sticker_paths
           ELSE k_args.generated_art_paths,
           k_args.original_image_paths)

\* The grid of 3 x 3: cell number sticker_index takes
\* sticker_images[sticker_index % len(sticker_images)].
StickerCells ==
    [n \in 1..9 |-> StickerImages[((n - 1) % Len(StickerImages)) + 1]]

\* "for row in range(3): for col in range(3)": sticker_index counts the cells,
\* each image is fitted to the square of its cell and centred in it.
StickersPlaced ==
    LET sticker_size == 50
        spacing == 10
        grid_width == (3 * sticker_size) + (2 * spacing)
        start_x == FracDiv(Frac(A4_WIDTH_MM - grid_width), Frac(2))
        start_y == 40
        Cell(sticker_index) ==
            LET row == sticker_index \div 3
                col == sticker_index % 3
                file == StickerImages[(sticker_index % Len(StickerImages)) + 1]
                size == FitSquare(AspectRatio(file), Frac(sticker_size))
                cell_x == FracAdd(start_x, Frac(col * (sticker_size + spacing)))
                cell_y == Frac(start_y + row * (sticker_size + spacing))
                x == FracAdd(cell_x,
                             FracDiv(FracSub(Frac(sticker_size), size.width), Frac(2)))
                y == FracAdd(cell_y,
                             FracDiv(FracSub(Frac(sticker_size), size.height), Frac(2)))
            IN  Placed("stickers", sticker_index, file,
                       <<Frac(sticker_size), Frac(sticker_size)>>,
                       <<cell_x, cell_y>>, x, y, size)
        cells == [n \in 1..9 |-> Cell(n - 1)]
        Shown(p) == Decodes(p.file)
    IN  SelectSeq(cells, Shown)

\* The sticker page is added only when sticker_paths is given.
KitStickersOnDemand ==
    /\ k_pc = "coloring"
    /\ k_idx > Len(k_args.generated_art_paths)
    /\ k_pages' = IF Len(k_args.sticker_paths) > 0
                  THEN Append(k_pages, Page("stickers", 0, Drawn(StickerCells)))
                  ELSE k_pages
    /\ k_placed' = IF Len(k_args.sticker_paths) > 0
                   THEN k_placed \o StickersPlaced
                   ELSE k_placed
    /\ k_pc' = "save"
    /\ UNCHANGED <<k_args, k_files, k_sizes, k_layout, k_idx, k_out, k_dir, k_returned, k_error>>

\* The last page, the stickers, added after the loop of the coloring pages.
KitStickers ==
    /\ k_pc = "coloring"
    /\ k_idx > Len(k_args.generated_art_paths)
    /\ k_pages' = Append(k_pages, Page("stickers", 0, Drawn(StickerCells)))
    /\ k_placed' = k_placed \o StickersPlaced
    /\ k_pc' = "save"
    /\ UNCHANGED <<k_args, k_files, k_sizes, k_layout, k_idx, k_out, k_dir, k_returned, k_error>>

\* os.makedirs(output_dir, exist_ok=True); pdf.output(pdf_filename);
\* return pdf_filename
KitSave ==
    /\ k_pc = "save"
    /\ k_dir' = TRUE
    /\ k_out' = k_out \cup {PdfName}
    /\ k_returned' = Append(k_returned, PdfName)
    /\ k_pc' = "done"
    /\ UNCHANGED <<k_args, k_files, k_sizes, k_layout, k_idx, k_pages,
                   k_placed, k_error>>

KitInit ==
    /\ WorkerIdle
    /\ UploadIdle
    /\ now = 0
    /\ LibIdleExcept("kit")
    /\ k_pc = "call"
    /\ k_args \in KitArgs
    /\ k_files \in [KitFiles -> {"ok", "corrupt", "missing"}]
    /\ k_idx = 1
    /\ k_pages = <<>>
    /\ k_out = {}
    /\ k_dir \in BOOLEAN
    /\ k_returned = <<>>
    /\ k_error = ""
    /\ k_sizes = [file \in KitFiles |-> <<1, 1>>]
    /\ k_layout = [pet_date |-> TRUE, story_height |-> 41]
    /\ k_placed = <<>>

KitNext ==
    \/ (KitEnter /\ UNCHANGED not_kit)
    \/ (KitCover /\ UNCHANGED not_kit)
    \/ (KitStory /\ UNCHANGED not_kit)
    \/ (KitColoring /\ UNCHANGED not_kit)
    \/ (KitStickers /\ UNCHANGED not_kit)
    \/ (KitSave /\ UNCHANGED not_kit)

KitSpec == KitInit /\ [][KitNext]_vars

\* ------------------------------------- the layout of the kit (LayoutSpec)
\* create_digital_kit again, called with images of several shapes, with up to
\* seven original photos and ten stickers, with and without a date line and
\* with story parts of several lengths.

\* The arguments tried.
LayoutArgs ==
    [generated_art_paths : {<<1>>, <<1, 2>>},
     has_art_list : {TRUE},
     original_image_paths : {<<>>, <<1>>, <<2, 1>>, <<1, 2, 2, 1>>,
                             <<1, 2, 1, 2, 1>>, <<2, 1, 1, 2, 1, 2, 2>>},
     sticker_paths : {<<>>, <<2>>, <<1, 1, 2, 1, 1, 1, 1, 1, 1, 2>>},
     story_text : BOOLEAN]

\* All files are there and decode, or one of them is missing or corrupt.
LayoutFiles ==
    {[file \in KitFiles |-> "ok"]}
    \cup {[file \in KitFiles |-> IF file = f THEN state ELSE "ok"] :
             f \in KitFiles, state \in {"missing", "corrupt"}}

\* img.size: square, landscape, portrait, the shape of the cover box, 4:3.
ImageSizes == << <<1, 1>>, <<2, 1>>, <<1, 2>>, <<8, 7>>, <<4, 3>> >>

LayoutSizes ==
    {[file \in KitFiles |-> ImageSizes[((file + shift) % Len(ImageSizes)) + 1]] :
         shift \in 1..Len(ImageSizes)}

\* pdf.get_y() after the story part of a coloring page: the text starts at
\* 32 and each line takes 9; the longest part ends below the page.
StoryHeights == {41, 104, 293}

LayoutInit ==
    /\ WorkerIdle
    /\ UploadIdle
    /\ now = 0
    /\ LibIdleExcept("kit")
    /\ k_pc = "call"
    /\ k_args \in LayoutArgs
    /\ k_files \in LayoutFiles
    /\ k_idx = 1
    /\ k_pages = <<>>
    /\ k_out = {}
    /\ k_dir = TRUE
    /\ k_returned = <<>>
    /\ k_error = ""
    /\ k_sizes \in LayoutSizes
    /\ k_layout \in [pet_date : BOOLEAN, story_height : StoryHeights]
    /\ k_placed = <<>>

LayoutSpec == LayoutInit /\ [][KitNext]_vars

\* =========================================== app/services/gemini_service.py
\* One call of GeminiGenerator.generate.

\* The payload of inline_data or file_data: absent, text or bytes.
NoData == [type |-> "none", content |-> ""]
Str(content) == [type |-> "str", content |-> content]
Bytes(content) == [type |-> "bytes", content |-> content]

\* base64.b64decode of the texts tried: the base64 text of the bytes of an
\* image, the base64 text of bytes that are no image, anything else.
B64Decode(text) ==
    CASE text = "UE5H" -> "PNG"
      [] text = "SlVOSw==" -> "JUNK"
      [] OTHER -> ""

\* image_data: text is base64-decoded, bytes are taken as they are.
ImageData(data) ==
    IF data.type = "str" THEN B64Decode(data.content) ELSE data.content

\* Image.open(io.BytesIO(image_data)) succeeds: the bytes start as an image
\* file; "PNG-cut" is an image file cut short after its header.
Opens(bytes) == bytes \in {"PNG", "PNG-cut"}

\* convert("RGB") and save(..., format="PNG") succeed: the whole file decodes.
Loads(bytes) == bytes = "PNG"

InlinePayloads ==
    {NoData, Str("UE5H"), Str("SlVOSw=="), Bytes("PNG"), Bytes("JUNK"),
     Bytes("UE5H"), Bytes("PNG-cut")}

FilePayloads == {NoData, Str("UE5H"), Bytes("PNG"), Bytes("JUNK")}

\* The parts tried.  as_image is looked at only in a part with neither
\* inline_data nor file_data: it is absent, returns an image, returns None
\* or raises.
Parts ==
    {[inline_data |-> i, file_data |-> f, as_image |-> "absent"] :
         i \in InlinePayloads, f \in FilePayloads}
    \cup
    {[inline_data |-> NoData, file_data |-> NoData, as_image |-> a] :
         a \in {"image", "none", "raises"}}

\* The responses tried: no candidate, or a first candidate with its parts.
Responses ==
    {[candidates |-> FALSE, parts |-> <<>>]}
    \cup {[candidates |-> TRUE, parts |-> parts] : parts \in SeqsUpTo(Parts, MaxParts)}

\* output_bytes: the image saved again as an RGB PNG.
OutputBytes(image) == [format |-> "PNG", mode |-> "RGB", image |-> image]

\* "except Exception as e: ...; raise"
GenerateRaise(kind) ==
    /\ g_pc' = "done"
    /\ g_error' = kind
    /\ UNCHANGED g_returned

\* input_image = Image.open(io.BytesIO(image_bytes))
GenerateOpen ==
    /\ g_pc = "call"
    /\ IF g_input = "bad"
       THEN GenerateRaise("UnidentifiedImageError")
       ELSE /\ g_pc' = "request"
            /\ UNCHANGED <<g_returned, g_error>>
    /\ UNCHANGED <<g_input, g_api, g_response, g_part, g_image, g_from, g_calls>>

\* response = self.model.generate_content([prompt, input_image], ...)
GenerateRequest ==
    /\ g_pc = "request"
    /\ g_calls' = g_calls + 1
    /\ IF g_api = "error"
       THEN GenerateRaise("APIError")
       ELSE /\ g_pc' = "check"
            /\ UNCHANGED <<g_returned, g_error>>
    /\ UNCHANGED <<g_input, g_api, g_response, g_part, g_image, g_from>>

\* "if not response.candidates or not response.candidates[0].content.parts:
\* raise ValueError("No image generated in response")"
GenerateCheck ==
    /\ g_pc = "check"
    /\ IF ~g_response.candidates \/ g_response.parts = <<>>
       THEN GenerateRaise("ValueError")
       ELSE /\ g_pc' = "parts"
            /\ UNCHANGED <<g_returned, g_error>>
    /\ UNCHANGED <<g_input, g_api, g_response, g_part, g_image, g_from, g_calls>>

\* "break": the loop is left with generated_image set.
Break(image, field) ==
    /\ g_image' = image
    /\ g_from' = <<g_part, field>>
    /\ g_pc' = "encode"
    /\ UNCHANGED g_part

\* "continue", or the end of the loop body: the next part, if any.
Continue ==
    /\ g_part' = g_part + 1
    /\ g_pc' = IF g_part = Len(g_response.parts) THEN "encode" ELSE "parts"
    /\ UNCHANGED <<g_image, g_from>>

\* One turn of "for part in response.candidates[0].content.parts": a part
\* with inline_data is settled by inline_data alone, a part without it and
\* with file_data by file_data alone, a part with neither by as_image.
GeneratePart ==
    /\ g_pc = "parts"
    /\ LET part == g_response.parts[g_part]
       IN  IF part.inline_data # NoData
           THEN IF Opens(ImageData(part.inline_data))
                THEN Break(ImageData(part.inline_data), "inline_data")
                ELSE Continue
           ELSE IF part.file_data # NoData
           THEN IF Opens(ImageData(part.file_data))
                THEN Break(ImageData(part.file_data), "file_data")
                ELSE Continue
           ELSE IF part.as_image = "image" THEN Break("PNG", "as_image")
           ELSE IF part.as_image = "none" THEN Break("", "as_image")
           ELSE Continue
    /\ UNCHANGED <<g_input, g_api, g_response, g_calls, g_returned, g_error>>

\* Without an image of the model the photo itself is returned.
GenerateEncodeFallback ==
    /\ g_pc = "encode"
    /\ IF g_image # "" /\ ~Loads(g_image)
       THEN GenerateRaise("OSError")
       ELSE /\ g_returned' = Append(g_returned,
                                    OutputBytes(IF g_image = "" THEN "PNG" ELSE g_image))
            /\ g_pc' = "done"
            /\ UNCHANGED g_error
    /\ UNCHANGED <<g_input, g_api, g_response, g_part, g_image, g_from, g_calls>>

\* "if generated_image is None: raise ValueError("No image data found in
\* response parts")"; else the image is converted to RGB, saved as PNG and
\* the bytes are returned.
GenerateEncode ==
    /\ g_pc = "encode"
    /\ IF g_image = "" THEN GenerateRaise("ValueError")
       ELSE IF ~Loads(g_image) THEN GenerateRaise("OSError")
       ELSE /\ g_returned' = Append(g_returned, OutputBytes(g_image))
            /\ g_pc' = "done"
            /\ UNCHANGED g_error
    /\ UNCHANGED <<g_input, g_api, g_response, g_part, g_image, g_from, g_calls>>

GenerateInit ==
    /\ WorkerIdle
    /\ UploadIdle
    /\ now = 0
    /\ LibIdleExcept("generate")
    /\ g_pc = "call"
    /\ g_input \in {"ok", "bad"}
    /\ g_api \in {"ok", "error"}
    /\ g_response \in Responses
    /\ g_part = 1
    /\ g_image = ""
    /\ g_from = <<>>
    /\ g_calls = 0
    /\ g_returned = <<>>
    /\ g_error = ""

GenerateNext ==
    \/ (GenerateOpen /\ UNCHANGED not_gen)
    \/ (GenerateRequest /\ UNCHANGED not_gen)
    \/ (GenerateCheck /\ UNCHANGED not_gen)
    \/ (GeneratePart /\ UNCHANGED not_gen)
    \/ (GenerateEncode /\ UNCHANGED not_gen)

GenerateSpec == GenerateInit /\ [][GenerateNext]_vars

\* ============================================ app/services/web_generator.py
\* One call of WebGenerator.generate_tribute_page.  Texts are sequences of
\* one-character strings.

\* The markers replaced in the template.
PetNameMarker ==
    <<"{","p","e","t","_","n","a","m","e","}">>
PetDateMarker ==
    <<"{","p","e","t","_","d","a","t","e","}">>
PetStoryMarker ==
    <<"{","p","e","t","_","s","t","o","r","y","}">>
ImageDataUriMarker ==
    <<"{","i","m","a","g","e","_","d","a","t","a","_","u","r","i","}">>

\* The templates tried: every marker once among braces of CSS, markers
\* repeated and out of order, and braces that are no marker.
Templates ==
    { <<"<","s","t","y","l","e",">","h","1","{","c","o","l","o","r",":","r",
      "e","d","}","<","/","s","t","y","l","e",">","<","h","1",">","{",
      "p","e","t","_","n","a","m","e","}","<","/","h","1",">","{","p",
      "e","t","_","d","a","t","e","}","<","p",">","{","p","e","t","_",
      "s","t","o","r","y","}","<","/","p",">","<","i","m","g"," ","s",
      "r","c","=","\"","{","i","m","a","g","e","_","d","a","t","a",
      "_","u","r","i","}","\"",">">>,
      <<"{","p","e","t","_","s","t","o","r","y","}","{","p","e","t","_","n",
      "a","m","e","}","{","}","{","p","e","t","_","n","a","m","e","}",
      "{","i","m","a","g","e","_","d","a","t","a","_","u","r","i","}",
      "{","p","e","t","_","d","a","t","e","}">>,
      <<"{"," ","p","e","t","_","n","a","m","e"," ","}","{","p","e","t","_",
      "n","a","m","e","s","}","{","{","p","e","t","_","d","a","t","e",
      "}","}","{","P","E","T","_","S","T","O","R","Y","}">> }

\* The texts of the customer tried, plain ones and ones that hold braces or
\* the text of a marker.
WebNames ==
    { <<"R","e","x">>, <<>>, <<"a","{","b","}">>,
      <<"{","p","e","t","_","s","t","o","r","y","}">> }
WebDates ==
    { <<"2","0","2","4">>,
      <<"{","i","m","a","g","e","_","d","a","t","a","_","u","r","i","}">> }
WebStories ==
    { <<"S">>, <<"<","b",">","{","x","}">>,
      <<"{","p","e","t","_","n","a","m","e","}">> }

\* The file names tried for art_image_path.
ArtFileNames ==
    { <<"a",".","p","n","g">>, <<"a",".","P","N","G">>,
      <<"d","/","a",".","P","n","g">>, <<"a",".","j","p","g">>,
      <<"a",".","p","n","g",".","w","e","b","p">>, <<"p","n","g">> }

\* The bytes of the art files tried.
ArtFileBytes == { <<"P","N","G">>, <<"J","U","N","K">> }

\* base64.b64encode(image_data).decode("utf-8") of the files tried.
B64Encode(bytes) ==
    CASE bytes = <<"P","N","G">> -> <<"U","E","5","H">>
      [] bytes = <<"J","U","N","K">> ->
             <<"S","l","V","O","S","w","=","=">>

\* The last position of the character in the text, 0 if it has none.
LastIndex(text, char) ==
    LET at == {i \in 1..Len(text) : text[i] = char}
    IN  IF at = {} THEN 0 ELSE CHOOSE i \in at : \A j \in at : j <= i

\* Path(path).suffix: the final component from its last dot on, empty when
\* the dot is missing, leads the name or ends it.
Suffix(path) ==
    LET name == SubSeq(path, LastIndex(path, "/") + 1, Len(path))
        dot == LastIndex(name, ".")
    IN  IF dot <= 1 \/ dot = Len(name) THEN <<>>
        ELSE SubSeq(name, dot, Len(name))

\* The extension is compared as it is written.
MimeTypeCaseSensitive(path) ==
    IF Suffix(path) = <<".","p","n","g">>
    THEN <<"i","m","a","g","e","/","p","n","g">>
    ELSE <<"i","m","a","g","e","/","j","p","e","g">>

\* ext = Path(art_image_path).suffix.lower();
\* mime_type = "image/png" if ext == ".png" else "image/jpeg"
MimeType(path) ==
    IF Lower(Suffix(path)) = <<".","p","n","g">>
    THEN <<"i","m","a","g","e","/","p","n","g">>
    ELSE <<"i","m","a","g","e","/","j","p","e","g">>

\* f"data:{mime_type};base64,{image_base64}"
DataUri(path, bytes) ==
    <<"d","a","t","a",":">> \o MimeType(path)
        \o <<";","b","a","s","e","6","4",",">> \o B64Encode(bytes)

\* str.replace(old, new): the occurrences of old, found from left to right
\* without overlap, are replaced by new.
RECURSIVE ReplaceAll(_, _, _)
ReplaceAll(text, old, new) ==
    LET at == {i \in 1..(Len(text) - Len(old) + 1) :
                  SubSeq(text, i, i + Len(old) - 1) = old}
        first == CHOOSE i \in at : \A j \in at : i <= j
    IN  IF at = {} THEN text
        ELSE SubSeq(text, 1, first - 1) \o new
             \o ReplaceAll(SubSeq(text, first + Len(old), Len(text)), old, new)

\* template.replace("{pet_name}", pet_name).replace("{pet_date}", pet_date)
\*         .replace("{pet_story}", pet_story)
\*         .replace("{image_data_uri}", image_data_uri)
FillTemplate(template, pet_name, pet_date, pet_story, image_data_uri) ==
    ReplaceAll(
        ReplaceAll(
            ReplaceAll(
                ReplaceAll(template, PetNameMarker, pet_name),
                PetDateMarker, pet_date),
            PetStoryMarker, pet_story),
        ImageDataUriMarker, image_data_uri)

\* The art is read and encoded as a data URI; when that fails the error is
\* logged and image_data_uri is the empty string.
WebEncodeImage ==
    /\ w_pc = "call"
    /\ w_uri' = IF w_image = <<>> THEN <<>>
                ELSE DataUri(w_args.art_image_path, w_image)
    /\ w_pc' = "template"
    /\ UNCHANGED <<w_args, w_image, w_template, w_template_ok, w_returned, w_error>>

\* template = self._load_template(), whose error is raised again; then the
\* markers are replaced and the page is returned.
WebFill ==
    /\ w_pc = "template"
    /\ w_pc' = "done"
    /\ IF w_template_ok
       THEN /\ w_returned' = Append(w_returned,
                                    FillTemplate(w_template, w_args.pet_name,
                                                 w_args.pet_date, w_args.pet_story,
                                                 w_uri))
            /\ UNCHANGED w_error
       ELSE /\ w_error' = "IOError"
            /\ UNCHANGED w_returned
    /\ UNCHANGED <<w_args, w_image, w_template, w_template_ok, w_uri>>

WebInit ==
    /\ WorkerIdle
    /\ UploadIdle
    /\ now = 0
    /\ LibIdleExcept("web")
    /\ w_pc = "call"
    /\ w_args \in [pet_name : WebNames, pet_date : WebDates,
                   pet_story : WebStories, art_image_path : ArtFileNames]
    /\ w_image \in ArtFileBytes \cup {<<>>}
    /\ w_template \in Templates
    /\ w_template_ok \in BOOLEAN
    /\ w_uri = <<>>
    /\ w_returned = <<>>
    /\ w_error = ""

WebNext ==
    \/ (WebEncodeImage /\ UNCHANGED not_web)
    \/ (WebFill /\ UNCHANGED not_web)

WebSpec == WebInit /\ [][WebNext]_vars

\* ================================================ slugs applied to texts
\* email_to_slug and name_to_slug of app/utils/slug.py applied to a text and
\* to their own results.

\* The characters of the short texts tried.
SlugChars == {"a", "B", "1", "-", " ", "\t", "@", ".", "!"}

Rep(char, n) == [i \in 1..n |-> char]

\* The texts tried that are longer than the cut of name_to_slug.
LongTexts ==
    { Rep("a", SlugMaxLen + 1),
      Rep("a", SlugMaxLen - 1) \o <<"-", "b">>,
      Rep("a", SlugMaxLen - 1) \o <<" ", "B", "!">>,
      Rep("a", SlugMaxLen - 2) \o <<"@", "b", ".", "c">> }

SlugInputs == SeqsUpTo(SlugChars, MaxSlugInput) \cup LongTexts

\* The text the next application takes: the input, then the last result.
Last(results_so_far) ==
    IF results_so_far = <<>> THEN s_input
    ELSE results_so_far[Len(results_so_far)]

\* email_to_slug(...) of the input, then of its own result.
ApplyEmailToSlug ==
    /\ Len(s_email) < 2
    /\ s_email' = Append(s_email, email_to_slug(Last(s_email)))
    /\ UNCHANGED <<s_input, s_name>>

\* name_to_slug(...) of the input, then of its own result.
ApplyNameToSlug ==
    /\ Len(s_name) < 2
    /\ s_name' = Append(s_name, name_to_slug(Last(s_name)))
    /\ UNCHANGED <<s_input, s_email>>

SlugInit ==
    /\ WorkerIdle
    /\ UploadIdle
    /\ now = 0
    /\ LibIdleExcept("slug")
    /\ s_input \in SlugInputs
    /\ s_email = <<>>
    /\ s_name = <<>>

SlugNext ==
    \/ (ApplyEmailToSlug /\ UNCHANGED not_slug)
    \/ (ApplyNameToSlug /\ UNCHANGED not_slug)

SlugSpec == SlugInit /\ [][SlugNext]_vars

\* ============================== app/utils/slug.py: get_unique_order_dir
\* Calls of get_unique_order_dir made one after another while the clock runs.

\* timestamp: str = None
NoTimestamp == <<"None">>
DirArgs ==
    [base_dir : {TempDir, <<"u">>},
     email : { <<"a", "@", "x">>, <<"b", "@", "x">> },
     pet_name : { <<"R", "e", "x">>, <<"M", "a", "x", " ", "2">> },
     timestamp : {FormatTimestamp(0), FormatTimestamp(TicksPerSecond), NoTimestamp}]

\* One call: a timestamp that is None is read from the clock.
GetUniqueOrderDir ==
    /\ Len(d_calls) < MaxDirCalls
    /\ \E args \in DirArgs :
         LET timestamp == IF args.timestamp = NoTimestamp
                          THEN FormatTimestamp(now)
                          ELSE args.timestamp
             path == get_unique_order_dir(args.base_dir, args.email,
                                          args.pet_name, timestamp)
         IN  d_calls' = Append(d_calls, [args |-> args, path |-> path])

DirInit ==
    /\ WorkerIdle
    /\ UploadIdle
    /\ now = 0
    /\ LibIdleExcept("dir")
    /\ d_calls = <<>>

DirNext ==
    \/ (GetUniqueOrderDir /\ UNCHANGED not_dir)
    \/ Tick

DirSpec == DirInit /\ [][DirNext]_vars

\* ==================== app/services/pdf_service.py: PDFService.clean_text
\* A text is the sequence of the code points of its characters.

\* None, written as a text that no string equals.
NoText == <<-1>>

\* The ranges of emoji_pattern, first and last code point of each.
EmojiRanges == { <<128512, 128591>>, <<127744, 128511>>, <<128640, 128767>>,
                 <<127462, 127487>>, <<9986, 10160>>, <<9410, 127569>> }

IsEmoji(c) == \E r \in EmojiRanges : r[1] <= c /\ c <= r[2]

\* What str.strip() removes among the code points below 256.
StrWhitespace == (9..13) \cup (28..32) \cup {133, 160}

\* "".join(char for char in text if ord(char) < 256), stripped
clean_text(text) ==
    IF text = NoText \/ text = <<>> THEN <<>>
    ELSE LET s1 == SelectSeq(text, LAMBDA c : ~IsEmoji(c))
             s2 == SelectSeq(s1, LAMBDA c : c < 256)
         IN  Strip(s2, StrWhitespace)

\* A bell, a space, "!", "A", "e" with an acute accent, the euro sign, a dog.
CleanChars == {7, 32, 33, 65, 233, 8364, 128021}
CleanInputs == SeqsUpTo(CleanChars, MaxCleanInput) \cup {NoText}

CleanText ==
    /\ c_returned = <<>>
    /\ c_returned' = <<clean_text(c_input)>>
    /\ UNCHANGED c_input

CleanInit ==
    /\ WorkerIdle
    /\ UploadIdle
    /\ now = 0
    /\ LibIdleExcept("clean")
    /\ c_input \in CleanInputs
    /\ c_returned = <<>>

CleanNext == CleanText /\ UNCHANGED not_clean

CleanSpec == CleanInit /\ [][CleanNext]_vars

\* ============================================================ properties
\* ------------------------------------------------ process_pet_story (Spec)

Done == pc = "done"

NPhotos == Len(photo_paths)

\* The generate_art call for this photo returned a path / raised.
Succeeded(photo) == \E k \in 1..Len(trace) : trace[k] = Ev("return", photo, TRUE)
Failed(photo) == \E k \in 1..Len(trace) : trace[k] = Ev("return", photo, FALSE)

\* The photos whose generation succeeded, in input order.
SuccessfulPhotos == SelectSeq(photo_paths, Succeeded)

AllPhotosFailed ==
    /\ NPhotos > 0
    /\ \A i \in 1..NPhotos : Failed(photo_paths[i])

\* Every position of op1 in the trace is before every position of op2.
Before(op1, op2) == \A a \in Positions(op1), b \in Positions(op2) : a < b

\* C1: every call of process_pet_story returns exactly one result record with
\* a boolean success flag, whatever fails, and no exception leaves the call.
C1_OneResultNoException ==
    /\ ~propagated
    /\ Len(results) = (IF Done THEN 1 ELSE 0)
    /\ \A k \in 1..Len(results) : results[k].success \in BOOLEAN

C1_Witness ==
    /\ Done
    /\ NPhotos = MaxPhotos
    /\ Len(results) = 1
    /\ ~results[1].success
    /\ Len(kit_call) = 1

\* C2: when generation fails for every photo of the order, the order ends with
\* a failure record and create_digital_kit, generate_tribute_page and
\* send_pet_story_email are never called.
C2_AllFailedNoKit ==
    AllPhotosFailed =>
        /\ kit_call = <<>>
        /\ page_call = <<>>
        /\ mail_call = <<>>
        /\ pc \in {"loop", "done"}
        /\ Done => ~results[1].success

C2_Witness ==
    /\ AllPhotosFailed
    /\ NPhotos = 2
    /\ Done
    /\ ~results[1].success

\* C3: a failing photo does not end the order; create_digital_kit gets the arts
\* of exactly the photos that succeeded, in input order, with all the original
\* photo paths, and a success record has photos_count = N and
\* arts_generated = the number of photos that succeeded.
C3_FailureIsolation ==
    /\ \A k \in 1..Len(kit_call) :
          /\ kit_call[k].original_image_paths = photo_paths
          /\ kit_call[k].shows = SuccessfulPhotos
          /\ Len(kit_call[k].generated_art_paths) = Len(SuccessfulPhotos)
    /\ (Done /\ SuccessfulPhotos # <<>>) =>
          /\ \A i \in 1..NPhotos :
                Succeeded(photo_paths[i]) \/ Failed(photo_paths[i])
          /\ Len(kit_call) = 1
    /\ \A k \in 1..Len(results) :
          results[k].success =>
              /\ results[k].photos_count = NPhotos
              /\ results[k].arts_generated = Len(SuccessfulPhotos)

C3_Witness ==
    /\ Done
    /\ NPhotos = 3
    /\ Failed(2)
    /\ SuccessfulPhotos = <<1, 3>>
    /\ results[1].success
    /\ results[1].arts_generated = 2
    /\ results[1].photos_count = 3

\* C4: once the kit was composed and the page rendered, the order ends in
\* success whatever the dispatch does (delivered, not configured, failed, the
\* PDF read or the dispatch raising), with pdf_path and html_path set and
\* email_sent telling whether the e-mail was delivered.
C4_DispatchNeverFails ==
    (Done /\ html_path # NoPath) =>
        /\ results[1].success
        /\ results[1].pdf_path # NoPath
        /\ results[1].html_path # NoPath
        /\ results[1].email_sent =
              (/\ Len(mail_call) = 1
               /\ mail_call[1].enabled
               /\ mail_call[1].smtp = "sent")

C4_Witness ==
    /\ Done
    /\ html_path # NoPath
    /\ Len(mail_call) = 1
    /\ mail_call[1].smtp = "raised"
    /\ results[1].success
    /\ ~results[1].email_sent

\* C5: when create_digital_kit, generate_tribute_page or the write of the page
\* raises, the order ends with a failure record, send_pet_story_email is never
\* called and no later stage is attempted.
C5_FatalStages ==
    /\ (Done /\ kit_call # <<>> /\ html_path = NoPath) =>
          /\ ~results[1].success
          /\ mail_call = <<>>
    /\ (Done /\ kit_call # <<>> /\ pdf_path = NoPath) => page_call = <<>>
    /\ mail_call # <<>> => (pdf_path # NoPath /\ html_path # NoPath)

C5_Witness ==
    /\ Done
    /\ kit_call # <<>>
    /\ pdf_path # NoPath
    /\ page_call # <<>>
    /\ html_path = NoPath
    /\ ~results[1].success

\* C6: the stages run in the order generation, composition, rendering,
\* notification: every generate_art call is before the create_digital_kit
\* call, which is before the generate_tribute_page call, which is before the
\* send_pet_story_email call; each of the three is called at most once, and the
\* page is given the first art that was generated.
C6_StageOrder ==
    /\ Before("generate_art", "create_digital_kit")
    /\ Before("return", "create_digital_kit")
    /\ Before("sleep", "create_digital_kit")
    /\ Before("create_digital_kit", "generate_tribute_page")
    /\ Before("generate_tribute_page", "send_pet_story_email")
    /\ Cardinality(Positions("create_digital_kit")) <= 1
    /\ Cardinality(Positions("generate_tribute_page")) <= 1
    /\ Cardinality(Positions("send_pet_story_email")) <= 1
    /\ Len(kit_call) = Cardinality(Positions("create_digital_kit"))
    /\ Len(page_call) = Cardinality(Positions("generate_tribute_page"))
    /\ Len(mail_call) = Cardinality(Positions("send_pet_story_email"))
    /\ (page_call # <<>>) => (kit_call # <<>> /\ pdf_path # NoPath)
    /\ \A k \in 1..Len(page_call) :
          /\ page_call[k] = generated_arts[1]
          /\ disk[page_call[k]] = SuccessfulPhotos[1]

C6_Witness ==
    /\ Done
    /\ NPhotos = 3
    /\ Failed(1)
    /\ SuccessfulPhotos = <<2, 3>>
    /\ Len(mail_call) = 1
    /\ disk[page_call[1]] = 2

\* C7: between every two successive generate_art calls of an order the delay
\* is slept: the call for a photo that is not the first directly follows a
\* sleep, whether the previous call succeeded or failed.
C7_DelayBetweenCalls ==
    \A k \in 2..Len(trace) :
        (trace[k].op = "generate_art" /\ "generate_art" \in {trace[j].op : j \in 1..(k-1)})
            => trace[k-1].op = "sleep"

\* C8: the generate_art calls of an order are made one at a time and in input
\* order, each photo is submitted exactly once (never again after a failure),
\* generate calls the model at most once per request, and no photo is left
\* without a call once the loop is over.
C8_SequentialOnce ==
    LET calls == SelectSeq(trace, LAMBDA e : e.op = "generate_art")
        open(k) == Cardinality({j \in 1..k : trace[j].op = "generate_art"})
                   - Cardinality({j \in 1..k : trace[j].op = "return"})
    IN  /\ Len(calls) <= NPhotos
        /\ \A j \in 1..Len(calls) : calls[j].photo = photo_paths[j]
        /\ \A k \in 1..Len(trace) : open(k) \in {0, 1}
        /\ \A k \in 1..Len(trace) :
              trace[k].op = "return" =>
                  /\ k > 1
                  /\ trace[k-1].photo = trace[k].photo
                  /\ trace[k-1].op \in {"generate_art", "generate_content"}
        /\ \A i \in 1..NPhotos :
              /\ Count("generate_content", photo_paths[i]) <= 1
              /\ Count("return", photo_paths[i]) <= 1
              /\ Succeeded(photo_paths[i]) =>
                    Count("generate_content", photo_paths[i]) = 1
        /\ idx > NPhotos =>
              \A i \in 1..NPhotos :
                  /\ Count("generate_art", photo_paths[i]) = 1
                  /\ Count("return", photo_paths[i]) = 1

C8_Witness ==
    /\ pc = "compose"
    /\ NPhotos = 3
    /\ Failed(2)
    /\ Count("generate_content", 2) = 1
    /\ Count("generate_art", 2) = 1
    /\ Succeeded(3)

\* ------------------------------------------------ upload endpoint (UploadSpec)

\* C9: any two distinct accepted orders have different working directories,
\* also when they come from the same customer for the same pet.
C9_OrderDirsDistinct ==
    \A i, j \in 1..Len(orders) : i # j => orders[i].dir # orders[j].dir

\* C10: every accepted upload is handed to process_pet_story exactly once, with
\* arguments the function accepts, after the bytes of every photo were written
\* to the order directory; a rejected upload starts nothing.
C10_HandOff ==
    /\ \A t \in tasks : Binds(t.kwargs)
    /\ \A k \in 1..Len(task_log) : task_log[k].outcome = "started"
    /\ \A k \in 1..Len(orders) :
          /\ \A f \in orders[k].files : <<orders[k].dir, f>> \in photo_files
          /\ Cardinality({t \in tasks : t.order = orders[k].id})
               + Cardinality({j \in 1..Len(task_log) :
                                 task_log[j].order = orders[k].id}) = 1
    /\ Len(orders) = Cardinality({k \in 1..Len(responses) : responses[k] = 200})

\* ------------------------------------------ send_pet_story_email (MailSpec)

MailDone == m_pc = "done"

\* How many times the SMTP command was issued in the call.
Issued(step) == Cardinality({k \in 1..Len(m_smtp) : m_smtp[k] = step})

C12_DeliveredOnlyAfterSession ==
    /\ ~m_raised
    /\ Len(m_returned) <= 1
    /\ (MailDone => Len(m_returned) = 1)
    /\ \A step \in {"connect", "starttls", "login", "send_message"} :
          Issued(step) <= 1
    /\ (m_returned = <<TRUE>> =>
            /\ m_smtp = <<"connect", "starttls", "login", "send_message", "quit">>
            /\ m_to \notin m_refused
            /\ m_error = "")
    /\ (m_error # "" => m_returned = <<FALSE>>)
    /\ (MailDone /\ m_to \in m_refused => m_returned = <<FALSE>>)

C12_Witness ==
    /\ MailDone
    /\ m_error = "SMTPAuthenticationError"
    /\ m_smtp = <<"connect", "starttls", "login", "quit">>
    /\ m_returned = <<FALSE>>

\* ------------------------------------------ the failure record (Spec)

FailureRecords == {k \in 1..Len(results) : ~results[k].success}

KitDone == k_pc = "done"

KitArts == k_args.generated_art_paths

\* C14: a call with an empty or missing list of arts raises the ValueError
\* of the zero-artwork check, returns nothing, writes no file to output_dir
\* and does not create it.
C14_NoArtNoFile ==
    (KitDone /\ Len(KitArts) = 0) =>
        /\ k_error = "ValueError"
        /\ k_returned = <<>>
        /\ k_pages = <<>>
        /\ k_out = {}

\* C15: with at least one art, whatever files fail to open or decode, the
\* call raises nothing, writes the document and returns its path; every art
\* has its coloring page, every image that decodes is drawn in its slot and
\* only the images that do not decode are left out; an error ends the call
\* only when there is no art.
C15_BrokenImagesSkipped ==
    /\ (k_error # "" => Len(KitArts) = 0)
    /\ (KitDone /\ Len(KitArts) > 0) =>
          /\ k_returned = <<PdfName>>
          /\ PdfName \in k_out
          /\ Len(k_pages) = Len(KitArts) + 3
          /\ k_pages[1].images =
                 IF Decodes(KitArts[1]) THEN <<Slot(0, KitArts[1])>> ELSE <<>>
          /\ \A n \in 1..Len(AllOriginalPhotos) :
                 Decodes(AllOriginalPhotos[n]) <=>
                     \E i \in 1..Len(k_pages[2].images) :
                         k_pages[2].images[i] = Slot(n - 1, AllOriginalPhotos[n])
          /\ \A n \in 1..Len(KitArts) :
                 k_pages[n + 2].images =
                     IF Decodes(KitArts[n]) THEN <<Slot(0, KitArts[n])>> ELSE <<>>
          /\ \A n \in 1..9 :
                 Decodes(StickerCells[n]) <=>
                     \E i \in 1..Len(k_pages[Len(k_pages)].images) :
                         k_pages[Len(k_pages)].images[i] = Slot(n - 1, StickerCells[n])

C15_Witness ==
    /\ KitDone
    /\ Len(KitArts) = 2
    /\ KitArts[1] # KitArts[2]
    /\ ~Decodes(KitArts[1])
    /\ Decodes(KitArts[2])
    /\ k_returned = <<PdfName>>
    /\ k_pages[3].images = <<>>
    /\ k_pages[4].images = <<Slot(0, KitArts[2])>>

\* C16: a document of N >= 1 arts has N + 3 pages: the cover, the story
\* page, one coloring page per art in the order of the arts, the sticker
\* page, whatever original photos and sticker images are given.
C16_PageOrder ==
    (k_pc \in {"save", "done"} /\ Len(KitArts) > 0) =>
        /\ Len(k_pages) = Len(KitArts) + 3
        /\ k_pages[1].kind = "cover"
        /\ k_pages[2].kind = "story"
        /\ \A n \in 1..Len(KitArts) :
              /\ k_pages[n + 2].kind = "coloring"
              /\ k_pages[n + 2].art = n
              /\ \A i \in 1..Len(k_pages[n + 2].images) :
                    k_pages[n + 2].images[i].file = KitArts[n]
        /\ k_pages[Len(KitArts) + 3].kind = "stickers"

C16_Witness ==
    /\ KitDone
    /\ Len(KitArts) = 2
    /\ Len(k_pages) = 5
    /\ k_args.original_image_paths = <<>>
    /\ k_args.sticker_paths = <<>>

\* ------------------------------------------ generate (GenerateSpec)

GenerateDone == g_pc = "done"

\* The model was reached and answered.
Answered == g_input = "ok" /\ g_api = "ok"

\* A payload opens as an image.
PayloadOpens(data) == data # NoData /\ Opens(ImageData(data))

\* The part holds data that opens as an image, inline, as file data or
\* through as_image.
YieldsImage(part) ==
    \/ PayloadOpens(part.inline_data)
    \/ PayloadOpens(part.file_data)
    \/ part.as_image = "image"

\* Some payload of the response decodes as a whole image.
SomePayloadLoads ==
    \E n \in 1..Len(g_response.parts) :
        \/ Loads(ImageData(g_response.parts[n].inline_data))
        \/ Loads(ImageData(g_response.parts[n].file_data))
        \/ g_response.parts[n].as_image = "image"

\* C17: generate raises the ValueError of the missing image when the
\* response has no candidate, when the first candidate has no part and when
\* no part holds data that opens as an image; it raises the error of
\* generate_content when that call fails, after one call; in these cases,
\* and whenever no payload decodes as a whole image, it returns no bytes.
C17_NoImageNoBytes ==
    GenerateDone =>
        /\ (g_input = "ok" /\ g_api = "error") =>
              /\ g_error = "APIError"
              /\ g_calls = 1
              /\ g_returned = <<>>
        /\ (Answered /\ ~g_response.candidates) =>
              g_error = "ValueError" /\ g_returned = <<>>
        /\ (Answered /\ g_response.parts = <<>>) =>
              g_error = "ValueError" /\ g_returned = <<>>
        /\ (Answered /\ \A n \in 1..Len(g_response.parts) :
                            ~YieldsImage(g_response.parts[n])) =>
              g_error = "ValueError" /\ g_returned = <<>>
        /\ ~SomePayloadLoads => (g_error # "" /\ g_returned = <<>>)
        /\ g_error # "" <=> g_returned = <<>>

C17_Witness ==
    /\ GenerateDone
    /\ Answered
    /\ Len(g_response.parts) = 2
    /\ g_response.parts[1].inline_data = Bytes("JUNK")
    /\ g_response.parts[2].as_image = "raises"
    /\ g_error = "ValueError"
    /\ g_returned = <<>>

\* The field of the part that gives its image: inline_data if it opens as an
\* image, else file_data if that opens, else none.
ImageField(part) ==
    IF PayloadOpens(part.inline_data) THEN "inline_data"
    ELSE IF PayloadOpens(part.file_data) THEN "file_data"
    ELSE "none"

\* The parts carry inline_data and file_data only.
DataPartsOnly ==
    \A n \in 1..Len(g_response.parts) : g_response.parts[n].as_image = "absent"

\* C25: the image generate works on is that of the first part of the response
\* that holds data opening as an image, taken from the inline_data of that
\* part if it opens and from its file_data otherwise; text is base64-decoded
\* and bytes are taken as they are.
C25_FirstPartThatDecodes ==
    (GenerateDone /\ Answered /\ DataPartsOnly) =>
        \A n \in 1..Len(g_response.parts) :
            (/\ ImageField(g_response.parts[n]) # "none"
             /\ \A k \in 1..(n - 1) : ImageField(g_response.parts[k]) = "none")
            => /\ g_from = <<n, ImageField(g_response.parts[n])>>
               /\ g_image = ImageData(g_response.parts[n][ImageField(g_response.parts[n])])

\* ------------------------------------------ generate_tribute_page (WebSpec)

WebDone == w_pc = "done"

\* The marker that starts at the position of the text, <<>> if none does.
MarkerAt(text, i) ==
    LET found == {m \in {PetNameMarker, PetDateMarker, PetStoryMarker,
                         ImageDataUriMarker} :
                     /\ i + Len(m) - 1 <= Len(text)
                     /\ SubSeq(text, i, i + Len(m) - 1) = m}
    IN  IF found = {} THEN <<>> ELSE CHOOSE m \in found : TRUE

\* The template with each marker replaced by its value in one pass from
\* left to right: what is not a marker is copied and a value put in place
\* of a marker is not read again.
RECURSIVE Substituted(_, _, _, _, _)
Substituted(text, name, date, story, uri) ==
    LET at == {i \in 1..Len(text) : MarkerAt(text, i) # <<>>}
        first == CHOOSE i \in at : \A j \in at : i <= j
        marker == MarkerAt(text, first)
        value == IF marker = PetNameMarker THEN name
                 ELSE IF marker = PetDateMarker THEN date
                 ELSE IF marker = PetStoryMarker THEN story
                 ELSE uri
    IN  IF at = {} THEN text
        ELSE SubSeq(text, 1, first - 1) \o value
             \o Substituted(SubSeq(text, first + Len(marker), Len(text)),
                            name, date, story, uri)

\* C18: the page returned is the template with the four markers, and
\* nothing else, replaced by their values: every other brace is left as it
\* is and a value is put in as it was given, its own text never taken for a
\* marker.
C18_OnlyMarkersReplaced ==
    (WebDone /\ w_error = "") =>
        w_returned = <<Substituted(w_template, w_args.pet_name, w_args.pet_date,
                                   w_args.pet_story, w_uri)>>

\* No brace in the texts of the customer.
PlainTexts ==
    \A text \in {w_args.pet_name, w_args.pet_date, w_args.pet_story} :
        \A i \in 1..Len(text) : text[i] \notin {"{", "}"}

\* The file names tried whose extension is .png in any case of letters.
PngFileNames ==
    {name \in ArtFileNames :
        /\ Len(name) > 4
        /\ Lower(SubSeq(name, Len(name) - 3, Len(name))) = <<".", "p", "n", "g">>}

\* The data URI of a readable art: image/png for a .png file, image/jpeg
\* for any other.
ExpectedUri ==
    <<"d", "a", "t", "a", ":", "i", "m", "a", "g", "e", "/">>
    \o (IF w_args.art_image_path \in PngFileNames
        THEN <<"p", "n", "g">> ELSE <<"j", "p", "e", "g">>)
    \o <<";", "b", "a", "s", "e", "6", "4", ",">>
    \o B64Encode(w_image)

\* C19: when the art cannot be read the page is still returned, with the
\* image marker replaced by the empty text and the texts put in; when it
\* can be read the data URI declares image/png for an extension .png in any
\* case of letters and image/jpeg for any other.
C19_ImageFallbackAndMime ==
    (WebDone /\ w_template_ok) =>
        /\ w_error = ""
        /\ Len(w_returned) = 1
        /\ w_uri = IF w_image = <<>> THEN <<>> ELSE ExpectedUri
        /\ PlainTexts =>
              w_returned[1] =
                  Substituted(w_template, w_args.pet_name, w_args.pet_date,
                              w_args.pet_story,
                              IF w_image = <<>> THEN <<>> ELSE ExpectedUri)

C19_Witness ==
    /\ WebDone
    /\ w_image = <<>>
    /\ w_template_ok
    /\ PlainTexts
    /\ w_args.pet_name = <<"R", "e", "x">>
    /\ w_args.pet_story = <<"S">>
    /\ w_template = <<"{", "p", "e", "t", "_", "s", "t", "o", "r", "y", "}">>
                    \o PetNameMarker \o <<"{", "}">> \o PetNameMarker
                    \o ImageDataUriMarker \o PetDateMarker
    /\ w_returned = <<<<"S", "R", "e", "x", "{", "}", "R", "e", "x">>
                      \o w_args.pet_date>>

\* ------------------------------------------ slugs (SlugSpec)

\* C20: email_to_slug and name_to_slug are idempotent: applied to their own
\* result they return it unchanged, for texts longer than the cut of 50
\* characters too.
C20_SlugsIdempotent ==
    /\ Len(s_email) = 2 => s_email[2] = s_email[1]
    /\ Len(s_name) = 2 => s_name[2] = s_name[1]

\* Lowercase ASCII letters, digits and hyphens only, no two hyphens in a row,
\* no hyphen at either end.
WellFormedSlug(slug) ==
    /\ \A i \in 1..Len(slug) : slug[i] \in Letters \cup Digits \cup {"-"}
    /\ \A i \in 1..(Len(slug) - 1) : ~(slug[i] = "-" /\ slug[i + 1] = "-")
    /\ Len(slug) > 0 => (slug[1] # "-" /\ slug[Len(slug)] # "-")

\* C22: whatever the input, email_to_slug and name_to_slug return lowercase
\* ASCII letters, digits and hyphens only, with no two hyphens in a row and no
\* hyphen at either end, and name_to_slug returns at most 50 characters.
C22_SlugsWellFormed ==
    /\ \A i \in 1..Len(s_email) : WellFormedSlug(s_email[i])
    /\ \A i \in 1..Len(s_name) :
          WellFormedSlug(s_name[i]) /\ Len(s_name[i]) <= SlugMaxLen

\* ------------------------------------------- get_unique_order_dir (DirSpec)
Supplied(call) == call.args.timestamp # NoTimestamp

SameOrder(c1, c2) ==
    /\ c1.args.base_dir = c2.args.base_dir
    /\ c1.args.email = c2.args.email
    /\ c1.args.pet_name = c2.args.pet_name

\* C21: with a timestamp supplied, get_unique_order_dir is a function of its
\* arguments: two calls with the same base_dir, email, pet_name and timestamp
\* return the same path whatever the clock says, and two calls that differ in
\* the timestamp only return different paths.
C21_DirDeterminedByArguments ==
    \A i, j \in 1..Len(d_calls) :
        (Supplied(d_calls[i]) /\ Supplied(d_calls[j])
            /\ SameOrder(d_calls[i], d_calls[j]))
        => ((d_calls[i].args.timestamp = d_calls[j].args.timestamp)
            <=> (d_calls[i].path = d_calls[j].path))

\* Two calls for the same order with different timestamps.
C21_Witness ==
    /\ Len(d_calls) >= 2
    /\ Supplied(d_calls[1]) /\ Supplied(d_calls[2])
    /\ SameOrder(d_calls[1], d_calls[2])
    /\ d_calls[1].args.timestamp # d_calls[2].args.timestamp
    /\ d_calls[1].path # d_calls[2].path

\* ------------------------------------------------- clean_text (CleanSpec)
CleanDone == c_returned # <<>>

\* The printable characters of one byte: ASCII from the space to the tilde,
\* Latin-1 from the inverted exclamation mark on.
Printable == (32..126) \cup (161..255)
\* ASCII letters, digits and punctuation, and the accented letters.
LettersDigitsPunctuation == (33..126) \cup (192..255)

\* C23: clean_text returns the empty text for an empty text and for None;
\* otherwise the result holds printable one-byte characters only, keeps the
\* letters, digits, punctuation and accented letters of the input in their
\* order, and holds nothing that is not in the input in that order.
C23_CleanTextPrintableOnly ==
    CleanDone =>
        LET out == c_returned[1]
        IN  /\ (c_input = NoText \/ c_input = <<>>) => out = <<>>
            /\ c_input # NoText =>
                /\ \A i \in 1..Len(out) : out[i] \in Printable
                /\ Keep(out, LettersDigitsPunctuation)
                     = Keep(c_input, LettersDigitsPunctuation)
                /\ \A i \in 1..Len(out) : out[i] < 256 /\ ~IsEmoji(out[i])

\* ------------------------------------------------- payment gate (PaySpec)
\* The payment of a request is verified: the payment id it carries is approved
\* at the provider or, when it carries none, the store holds an approved
\* payment of the same e-mail and pet name saved less than 24 hours ago.
PaidFor(payment_id, email, pet_name) ==
    IF payment_id \in PaymentIds
    THEN provider[payment_id] = "approved"
    ELSE \E p \in DOMAIN payments :
            /\ payments[p].status = "approved"
            /\ <<payments[p].email, payments[p].pet_name>> = <<email, pet_name>>
            /\ now < payments[p].timestamp + Hours24

\* The step is the upload of this one request.
UploadRequest(email, pet_name, payment_id) ==
    UploadOf({email}, {pet_name}, PayStories, PayFotoLists, {payment_id})

\* The e-mail of a request passes the check made before the payment gate.
ValidEmail(email) == \E i \in 1..Len(email) : email[i] = "@"

PipelineLeavesPayments ==
    task_log' # task_log => UNCHANGED <<payments, provider>>

FracLe(a, b) == ~FracLt(b, a)

Placements == {k_placed[n] : n \in 1..Len(k_placed)}

PlacedOn(page) == {p \in Placements : p.page = page}

\* The box has a positive width and a positive height.
ProperBox(p) == FracLt(Frac(0), p.box[1]) /\ FracLt(Frac(0), p.box[2])

\* The boxes the layout names: 160 x 140 on the cover, 50 x 50 for a sticker.
NamedBoxes ==
    /\ \A p \in PlacedOn("cover") : p.box = <<Frac(160), Frac(140)>>
    /\ \A p \in PlacedOn("stickers") : p.box = <<Frac(50), Frac(50)>>

\* The rendered size has the shape of the image, fits the box and reaches it
\* on one axis at least.
FitsWithin(p) ==
    /\ FracMul(p.width, Frac(k_sizes[p.file][2]))
         = FracMul(p.height, Frac(k_sizes[p.file][1]))
    /\ FracLe(p.width, p.box[1])
    /\ FracLe(p.height, p.box[2])
    /\ p.width = p.box[1] \/ p.height = p.box[2]

\* C26: every image of the kit, on the cover (box of 160 x 140), in a cell of
\* the photo grid, on a coloring page (the area below the title) and in a
\* sticker cell (50 x 50), whose box has a positive width and height, is
\* rendered with its aspect ratio kept, no wider and no higher than the box,
\* and as wide or as high as the box.
C26_FitWithin ==
    /\ NamedBoxes
    /\ \A p \in Placements : ProperBox(p) => FitsWithin(p)

\* A finished kit with an image on each kind of page, one of them narrower
\* than its box and one of them lower than its box.
C26_Witness ==
    /\ k_pc = "done"
    /\ \A page \in {"cover", "story", "coloring", "stickers"} : PlacedOn(page) # {}
    /\ \E p \in Placements : ProperBox(p) /\ FracLt(p.width, p.box[1])
    /\ \E p \in Placements : ProperBox(p) /\ FracLt(p.height, p.box[2])

\* The upper left corner of the box of an image: the corner of its cell in a
\* grid, below the title and centred on the page for the cover, below the
\* story part at the left margin for a coloring page.
BoxCorner(p) ==
    IF p.cell # NoCell THEN p.cell
    ELSE IF p.page = "cover"
    THEN <<FracDiv(FracSub(Frac(A4_WIDTH_MM), p.box[1]), Frac(2)), Frac(75)>>
    ELSE <<Frac(5), Frac(StoryHeight + 5)>>

\* The margins left and right of the image are equal, and so are those above
\* and below it.
Centered(p) ==
    /\ FracSub(p.x, BoxCorner(p)[1])
         = FracSub(FracAdd(BoxCorner(p)[1], p.box[1]), FracAdd(p.x, p.width))
    /\ FracSub(p.y, BoxCorner(p)[2])
         = FracSub(FracAdd(BoxCorner(p)[2], p.box[2]), FracAdd(p.y, p.height))

Inside(p) ==
    /\ FracLe(BoxCorner(p)[1], p.x)
    /\ FracLe(FracAdd(p.x, p.width), FracAdd(BoxCorner(p)[1], p.box[1]))
    /\ FracLe(BoxCorner(p)[2], p.y)
    /\ FracLe(FracAdd(p.y, p.height), FracAdd(BoxCorner(p)[2], p.box[2]))

\* C27: every image of the kit is centred in its box, horizontally and
\* vertically, and lies inside the box.
C27_CenteredInBox ==
    \A p \in Placements : ProperBox(p) => (Centered(p) /\ Inside(p))

\* The sticker page has been made.
StickersDone == k_pc \in {"save", "done"} /\ k_error = ""

\* The candidate pool of the stickers: the sticker images if there are any,
\* else the arts, then each original photo that exists and is not in the pool
\* yet, once.
Pool ==
    LET base == IF k_args.sticker_paths # <<>> THEN k_args.sticker_paths
                ELSE k_args.generated_art_paths
        originals == k_args.original_image_paths
        InBase(file) == \E n \in 1..Len(base) : base[n] = file
        Fresh(i) == /\ Exists(originals[i])
                    /\ ~InBase(originals[i])
                    /\ \A j \in 1..(i - 1) : originals[j] # originals[i]
        kept == SelectSeq([i \in 1..Len(originals) |-> i], Fresh)
    IN  base \o [n \in 1..Len(kept) |-> originals[kept[n]]]

\* The corner of cell k of the grid of 3 x 3, cells of 50 set 10 apart, the
\* grid centred on the page and starting 40 from the top.
StickerCorner(k) == <<Frac(20 + 60 * (k % 3)), Frac(40 + 60 * (k \div 3))>>

\* C28: the sticker page is a grid of 3 x 3 whose cell k, counted from 0 from
\* left to right and from top to bottom, takes entry k mod |pool| of the pool
\* made of the sticker images, or of the arts when there is none, followed by
\* the existing original photos that are not in it yet: a short pool is
\* cycled, of a long one the first nine are taken.  The image of a cell is
\* drawn when its file decodes.
C28_StickerPool ==
    StickersDone =>
        /\ \A k \in 0..8 :
              LET file == Pool[(k % Len(Pool)) + 1]
              IN  Decodes(file) =>
                    \E p \in PlacedOn("stickers") :
                        p.index = k /\ p.file = file /\ p.cell = StickerCorner(k)
        /\ \A p \in PlacedOn("stickers") :
              /\ p.index \in 0..8
              /\ p.file = Pool[(p.index % Len(Pool)) + 1]
        /\ Cardinality(PlacedOn("stickers")) <= 9

\* A pool of ten, of which nine are shown.
C28_Witness ==
    /\ StickersDone
    /\ Len(Pool) = 10
    /\ Cardinality(PlacedOn("stickers")) = 9
    /\ \E p \in PlacedOn("stickers") : p.index = 8 /\ p.file = Pool[9]

\* The story page has been made.
StoryPageDone == \E n \in 1..Len(k_pages) : k_pages[n].kind = "story"

\* The photos of the story page: the original photos that exist, or the first
\* art alone when there is none.
GridPhotos ==
    LET existing == SelectSeq(k_args.original_image_paths, Exists)
    IN  IF existing # <<>> THEN existing
        ELSE IF Exists(k_args.generated_art_paths[1])
        THEN <<k_args.generated_art_paths[1]>>
        ELSE <<>>

GridCols == IF Len(GridPhotos) = 1 THEN 1 ELSE IF Len(GridPhotos) <= 4 THEN 2 ELSE 3

\* ceil(count / cols)
GridRows ==
    CHOOSE rows \in 0..Len(GridPhotos) :
        rows * GridCols >= Len(GridPhotos) /\ (rows - 1) * GridCols < Len(GridPhotos)

\* A cell is as wide as the 180 mm between the borders allow with 8 mm between
\* the columns, and as high as 120 mm shared by the rows allow, at most three
\* quarters of its width.
GridCellWidth == FracDiv(Frac(180 - 8 * (GridCols - 1)), Frac(GridCols))
GridCellHeight ==
    FracMin(FracDiv(Frac(120), Frac(GridRows)), FracMul(GridCellWidth, <<3, 4>>))

\* The corner of the cell in the given row and column, 8 mm between cells.
GridCorner(row, col) ==
    <<FracAdd(Frac(15), FracMul(Frac(col), FracAdd(GridCellWidth, Frac(8)))),
      FracAdd(Frac(PhotosStartY),
              FracMul(Frac(row), FracAdd(GridCellHeight, Frac(8))))>>

\* C29: the photo grid of the story page shows all original photos that
\* exist, photo i (from 0) in row i div cols and column i mod cols, with 1
\* column for 1 photo, 2 for 2 to 4 and 3 for 5 or more, and ceil(count / cols)
\* rows; without an original photo the first art is shown alone.  A photo is
\* drawn when its file decodes.
C29_PhotoGrid ==
    StoryPageDone =>
        /\ \A i \in 0..(Len(GridPhotos) - 1) :
              Decodes(GridPhotos[i + 1]) =>
                \E p \in PlacedOn("story") :
                    /\ p.index = i
                    /\ p.file = GridPhotos[i + 1]
                    /\ p.cell = GridCorner(i \div GridCols, i % GridCols)
                    /\ p.box = <<GridCellWidth, GridCellHeight>>
        /\ \A p \in PlacedOn("story") :
              /\ p.index \in 0..(Len(GridPhotos) - 1)
              /\ p.file = GridPhotos[p.index + 1]
        /\ Cardinality(PlacedOn("story")) <= Len(GridPhotos)

\* Five photos in three columns: the last one in the middle of the second
\* row.
C29_Witness ==
    /\ StoryPageDone
    /\ Len(GridPhotos) = 5
    /\ Cardinality(PlacedOn("story")) = 5
    /\ \E p \in PlacedOn("story") : p.index = 4 /\ p.cell = GridCorner(1, 1)

\* ------------------------------------------- artifacts of an order (Spec)
\* C30: the arts of one order are written to pairwise different paths, so
\* that no generate_art call overwrites the art of an earlier photo: each
\* path of generated_arts names a file that holds the art of exactly the
\* photo it was made from, and the art_paths of a success record are
\* arts_generated different files.
C30_ArtifactsDistinct ==
    /\ \A i, j \in 1..Len(generated_arts) :
          i # j => generated_arts[i] # generated_arts[j]
    /\ Len(generated_arts) = Len(SuccessfulPhotos)
    /\ \A i \in 1..Len(generated_arts) :
          /\ generated_arts[i] \in DOMAIN disk
          /\ disk[generated_arts[i]] = SuccessfulPhotos[i]
    /\ \A k \in 1..Len(results) :
          results[k].success =>
            /\ results[k].art_paths = generated_arts
            /\ results[k].arts_generated
                 = Cardinality({results[k].art_paths[i] :
                                   i \in 1..Len(results[k].art_paths)})

\* An order of three photos of which the second failed: two arts, made two
\* seconds apart or more.
C30_Witness ==
    /\ Done
    /\ NPhotos = 3
    /\ Failed(photo_paths[2])
    /\ Len(results) = 1 /\ results[1].success
    /\ results[1].arts_generated = 2
    /\ Cardinality(DOMAIN disk) = 2
====
